---- MODULE Spec2Model ----
(***************************************************************************)
(* State-machine model of class_schedule_extractor.py: one run of          *)
(* EnhancedAIBusinessExtractor.extract_comprehensive_business_data, i.e.   *)
(* browser setup, site discovery (link discovery, page classification,     *)
(* header-first frontier), the page-by-page crawl with its per-page        *)
(* failure handling, and the hand-over to data synthesis.                  *)
(*                                                                         *)
(* The pure functions of the pipeline are checked on their own: the page   *)
(* classifier (ClassifierSpec), program-name normalization                 *)
(* (NormalizeSpec), the field merge strategies (FieldMergeSpec) and the    *)
(* cross-page fusion of program records (FusionSpec) each draw an input    *)
(* from a bounded set and apply the function to it.                        *)
(*                                                                         *)
(* Python strings that the code inspects character by character (URLs,     *)
(* link texts, keywords, names, field values) are tuples of one-character  *)
(* strings; where the state holds a name (a TLA+ string), Chars gives its  *)
(* spelling.                                                               *)
(***************************************************************************)
EXTENDS Integers, Sequences, FiniteSets, TLC

\* ------------------------------------------------------------------ bounds
\* most anchors on the rendered main page
MaxLinks == 2
\* most entries in the oracle's "important_links" answer
MaxOracleLinks == 2

\* ----------------------------------------------------------------- strings
None == <<>>
Some(x) == <<x>>

URLs ==
  {"http://g.co/about", "http://g.co/schedule", "http://g.co/Staff",
   "http://g.co/contact", "http://g.co/blog", "http://x.io/?r=g.co"}

Texts ==
  {"About", "About Us", "Schedule", "Coaches", "Contact", "Blog", "Partner",
   "Classes", ""}

\* words a URL path is made of, one or two for each rule of the classifier
PathWords ==
  {"sessions", "schedule", "class", "staff", "fees", "about", "faq",
   "contact", "us", "event", "jobs", "blog"}

\* words a program name is made of: synonyms, canonical words, generic nouns
NameWords ==
  {"Gym", "Gymnastics", "Intro", "Beginner", "Advanced", "Toddler",
   "Preschool", "Tumbling", "Class", "Programs"}

\* values the oracle reports in its answers, and the code's own literals
Values ==
  {"Fun", "Ann", "Coach", "Monday", "4:30 PM", "Monday 4:30 PM", "$75/mo",
   "No refunds after the second week", "G Gym", "555", "Unknown Program",
   "Beginner Tumbling", "3 left", "3", "monthly", "Open", "open", "full",
   "FULL", "Full", "Closed", "closed", "waitlist", "upcoming", "pending",
   "Contact for pricing", "varies", "CALL FOR RATES", "$80/month",
   "$80/MONTH", "ann ", " ANN", "Bob", "Head",
   "Quality gymnastics programs at ", "Address not available",
   "City not available", "State not available", "00000",
   "Phone not available", "Email not available", "Gym", "556", "Ames",
   "a@g.co", "SPORTS", "GYMNASTICS"}

\* pages whose answers are fused
PageURLs ==
  {"http://g.co/programs", "http://g.co/pricing", "http://g.co/classes",
   "http://g.co/calendar", "http://g.co/tuition"}

\* hrefs a main page may link to: on the site, elsewhere, phone and mail
LinkHrefs ==
  {"http://x.io/classes?r=g.co", "http://x.io/classes", "tel:555",
   "mailto:a@g.co"}

Strings == URLs \cup Texts \cup PathWords \cup NameWords \cup Values \cup PageURLs \cup LinkHrefs \cup {"g.co", "http://g.co"}

\* the spelling of every string the model uses
Chars ==
  [s \in Strings |->
    CASE s = "http://g.co/about" -> <<"h","t","t","p",":","/","/","g",".","c","o","/","a","b","o","u","t">>
      [] s = "http://g.co/schedule" -> <<"h","t","t","p",":","/","/","g",".","c","o","/","s","c","h","e","d","u","l","e">>
      [] s = "http://g.co/Staff" -> <<"h","t","t","p",":","/","/","g",".","c","o","/","S","t","a","f","f">>
      [] s = "http://g.co/contact" -> <<"h","t","t","p",":","/","/","g",".","c","o","/","c","o","n","t","a","c","t">>
      [] s = "http://g.co/blog" -> <<"h","t","t","p",":","/","/","g",".","c","o","/","b","l","o","g">>
      [] s = "http://x.io/?r=g.co" -> <<"h","t","t","p",":","/","/","x",".","i","o","/","?","r","=","g",".","c","o">>
      [] s = "About" -> <<"A","b","o","u","t">>
      [] s = "About Us" -> <<"A","b","o","u","t"," ","U","s">>
      [] s = "Schedule" -> <<"S","c","h","e","d","u","l","e">>
      [] s = "Coaches" -> <<"C","o","a","c","h","e","s">>
      [] s = "Contact" -> <<"C","o","n","t","a","c","t">>
      [] s = "Blog" -> <<"B","l","o","g">>
      [] s = "Partner" -> <<"P","a","r","t","n","e","r">>
      [] s = "Classes" -> <<"C","l","a","s","s","e","s">>
      [] s = "" -> <<>>
      [] s = "sessions" -> <<"s","e","s","s","i","o","n","s">>
      [] s = "schedule" -> <<"s","c","h","e","d","u","l","e">>
      [] s = "class" -> <<"c","l","a","s","s">>
      [] s = "staff" -> <<"s","t","a","f","f">>
      [] s = "fees" -> <<"f","e","e","s">>
      [] s = "about" -> <<"a","b","o","u","t">>
      [] s = "faq" -> <<"f","a","q">>
      [] s = "contact" -> <<"c","o","n","t","a","c","t">>
      [] s = "us" -> <<"u","s">>
      [] s = "event" -> <<"e","v","e","n","t">>
      [] s = "jobs" -> <<"j","o","b","s">>
      [] s = "blog" -> <<"b","l","o","g">>
      [] s = "Gym" -> <<"G","y","m">>
      [] s = "Gymnastics" -> <<"G","y","m","n","a","s","t","i","c","s">>
      [] s = "Intro" -> <<"I","n","t","r","o">>
      [] s = "Beginner" -> <<"B","e","g","i","n","n","e","r">>
      [] s = "Advanced" -> <<"A","d","v","a","n","c","e","d">>
      [] s = "Toddler" -> <<"T","o","d","d","l","e","r">>
      [] s = "Preschool" -> <<"P","r","e","s","c","h","o","o","l">>
      [] s = "Tumbling" -> <<"T","u","m","b","l","i","n","g">>
      [] s = "Class" -> <<"C","l","a","s","s">>
      [] s = "Programs" -> <<"P","r","o","g","r","a","m","s">>
      [] s = "Fun" -> <<"F","u","n">>
      [] s = "Ann" -> <<"A","n","n">>
      [] s = "Coach" -> <<"C","o","a","c","h">>
      [] s = "Monday" -> <<"M","o","n","d","a","y">>
      [] s = "4:30 PM" -> <<"4",":","3","0"," ","P","M">>
      [] s = "Monday 4:30 PM" -> <<"M","o","n","d","a","y"," ","4",":","3","0"," ","P","M">>
      [] s = "$75/mo" -> <<"$","7","5","/","m","o">>
      [] s = "No refunds after the second week" -> <<"N","o"," ","r","e","f","u","n","d","s"," ","a","f","t","e","r"," ","t","h","e"," ","s","e","c","o","n","d"," ","w","e","e","k">>
      [] s = "G Gym" -> <<"G"," ","G","y","m">>
      [] s = "555" -> <<"5","5","5">>
      [] s = "Unknown Program" -> <<"U","n","k","n","o","w","n"," ","P","r","o","g","r","a","m">>
      [] s = "Beginner Tumbling" -> <<"B","e","g","i","n","n","e","r"," ","T","u","m","b","l","i","n","g">>
      [] s = "3 left" -> <<"3"," ","l","e","f","t">>
      [] s = "3" -> <<"3">>
      [] s = "monthly" -> <<"m","o","n","t","h","l","y">>
      [] s = "Open" -> <<"O","p","e","n">>
      [] s = "open" -> <<"o","p","e","n">>
      [] s = "full" -> <<"f","u","l","l">>
      [] s = "FULL" -> <<"F","U","L","L">>
      [] s = "Full" -> <<"F","u","l","l">>
      [] s = "Closed" -> <<"C","l","o","s","e","d">>
      [] s = "closed" -> <<"c","l","o","s","e","d">>
      [] s = "waitlist" -> <<"w","a","i","t","l","i","s","t">>
      [] s = "upcoming" -> <<"u","p","c","o","m","i","n","g">>
      [] s = "pending" -> <<"p","e","n","d","i","n","g">>
      [] s = "Contact for pricing" -> <<"C","o","n","t","a","c","t"," ","f","o","r"," ","p","r","i","c","i","n","g">>
      [] s = "varies" -> <<"v","a","r","i","e","s">>
      [] s = "CALL FOR RATES" -> <<"C","A","L","L"," ","F","O","R"," ","R","A","T","E","S">>
      [] s = "$80/month" -> <<"$","8","0","/","m","o","n","t","h">>
      [] s = "$80/MONTH" -> <<"$","8","0","/","M","O","N","T","H">>
      [] s = "ann " -> <<"a","n","n"," ">>
      [] s = " ANN" -> <<" ","A","N","N">>
      [] s = "Bob" -> <<"B","o","b">>
      [] s = "Head" -> <<"H","e","a","d">>
      [] s = "Quality gymnastics programs at " -> <<"Q","u","a","l","i","t","y"," ","g","y","m","n","a","s","t","i","c","s"," ","p","r","o","g","r","a","m","s"," ","a","t"," ">>
      [] s = "Address not available" -> <<"A","d","d","r","e","s","s"," ","n","o","t"," ","a","v","a","i","l","a","b","l","e">>
      [] s = "City not available" -> <<"C","i","t","y"," ","n","o","t"," ","a","v","a","i","l","a","b","l","e">>
      [] s = "State not available" -> <<"S","t","a","t","e"," ","n","o","t"," ","a","v","a","i","l","a","b","l","e">>
      [] s = "00000" -> <<"0","0","0","0","0">>
      [] s = "Phone not available" -> <<"P","h","o","n","e"," ","n","o","t"," ","a","v","a","i","l","a","b","l","e">>
      [] s = "Email not available" -> <<"E","m","a","i","l"," ","n","o","t"," ","a","v","a","i","l","a","b","l","e">>
      [] s = "556" -> <<"5","5","6">>
      [] s = "Ames" -> <<"A","m","e","s">>
      [] s = "a@g.co" -> <<"a","@","g",".","c","o">>
      [] s = "SPORTS" -> <<"S","P","O","R","T","S">>
      [] s = "GYMNASTICS" -> <<"G","Y","M","N","A","S","T","I","C","S">>
      [] s = "http://g.co/programs" -> <<"h","t","t","p",":","/","/","g",".","c","o","/","p","r","o","g","r","a","m","s">>
      [] s = "http://g.co/pricing" -> <<"h","t","t","p",":","/","/","g",".","c","o","/","p","r","i","c","i","n","g">>
      [] s = "http://g.co/classes" -> <<"h","t","t","p",":","/","/","g",".","c","o","/","c","l","a","s","s","e","s">>
      [] s = "http://g.co/calendar" -> <<"h","t","t","p",":","/","/","g",".","c","o","/","c","a","l","e","n","d","a","r">>
      [] s = "http://g.co/tuition" -> <<"h","t","t","p",":","/","/","g",".","c","o","/","t","u","i","t","i","o","n">>
      [] s = "http://x.io/classes?r=g.co" -> <<"h","t","t","p",":","/","/","x",".","i","o","/","c","l","a","s","s","e","s","?","r","=","g",".","c","o">>
      [] s = "http://x.io/classes" -> <<"h","t","t","p",":","/","/","x",".","i","o","/","c","l","a","s","s","e","s">>
      [] s = "tel:555" -> <<"t","e","l",":","5","5","5">>
      [] s = "mailto:a@g.co" -> <<"m","a","i","l","t","o",":","a","@","g",".","c","o">>
      [] s = "g.co" -> <<"g",".","c","o">>
      [] s = "http://g.co" -> <<"h","t","t","p",":","/","/","g",".","c","o">>]

\* the characters in ASCII order
Alphabet ==
  <<" ","$","-",".","/","0","3","4","5","6","7","8",":","=","?","@","A","B","C","D","E","F","G","H","I","J","K","L","M","N","O","P","Q","R","S","T","U","V","W","X","Y","Z","a","b","c","d","e","f","g","h","i","j","k","l","m","n","o","p","q","r","s","t","u","v","w","x","y","z">>

Ord(c) == CHOOSE i \in 1..Len(Alphabet) : Alphabet[i] = c

\* str.lower() of one character
LowerChar(c) ==
  IF Ord(c) >= Ord("A") /\ Ord(c) <= Ord("Z")
    THEN Alphabet[Ord(c) + (Ord("a") - Ord("A"))]
    ELSE c

\* str.lower()
Lower(s) == [i \in 1..Len(s) |-> LowerChar(s[i])]

\* Python's  w in s  on strings
Contains(s, w) ==
  \E i \in 1..(Len(s) - Len(w) + 1) : SubSeq(s, i, i + Len(w) - 1) = w

\* str.startswith
StartsWith(s, w) == Len(w) <= Len(s) /\ SubSeq(s, 1, Len(w)) = w

\* any(word in s for word in words)
AnyWordIn(words, s) == \E k \in 1..Len(words) : Contains(s, words[k])

\* sum(1 for word in words if word in s)
CountWordsIn(words, s) == Cardinality({k \in 1..Len(words) : Contains(s, words[k])})

\* Python's  a <= b  on strings (lexicographic by code point)
RECURSIVE StrLeq(_, _)
StrLeq(a, b) ==
  IF a = <<>> THEN TRUE
  ELSE IF b = <<>> THEN FALSE
  ELSE IF a[1] = b[1] THEN StrLeq(Tail(a), Tail(b))
  ELSE Ord(a[1]) < Ord(b[1])

\* s[:n] for n >= 0
Take(s, n) == SubSeq(s, 1, IF n < Len(s) THEN n ELSE Len(s))

\* list(dict.fromkeys(s)): first occurrences, in order
RECURSIVE DedupKeepFirst(_)
DedupKeepFirst(s) ==
  IF s = <<>> THEN <<>>
  ELSE LET front == DedupKeepFirst(SubSeq(s, 1, Len(s) - 1))
           x == s[Len(s)]
       IN IF \E k \in 1..Len(front) : front[k] = x THEN front ELSE Append(front, x)

\* ---------------------------------------------------- keyword lists (code)
DeepScheduleWords ==
    << <<"/","p","o","r","t","a","l","/","c","l","a","s","s">>,
       <<"/","p","o","r","t","a","l","/","s","c","h","e","d","u","l","e">>,
       <<"/","c","l","a","s","s","e","s","/">>,
       <<"/","c","l","a","s","s","-","s","c","h","e","d","u","l","e">>,
       <<"/","s","e","s","s","i","o","n","s">>,
       <<"/","r","e","g","i","s","t","e","r">> >>

ScheduleWords ==
    << <<"s","c","h","e","d","u","l","e">>,
       <<"c","a","l","e","n","d","a","r">>,
       <<"t","i","m","e","t","a","b","l","e">>,
       <<"h","o","u","r","s">>,
       <<"t","i","m","e">> >>

ProgramWords ==
    << <<"p","r","o","g","r","a","m">>,
       <<"c","l","a","s","s">>,
       <<"c","o","u","r","s","e">>,
       <<"l","e","s","s","o","n">>,
       <<"a","c","a","d","e","m","y">>,
       <<"g","y","m","n","a","s","t","i","c","s">>,
       <<"t","u","m","b","l","i","n","g">>,
       <<"n","i","n","j","a">>,
       <<"p","r","e","s","c","h","o","o","l">>,
       <<"c","a","m","p">>,
       <<"a","d","a","p","t","i","v","e">>,
       <<"b","o","y","s">>,
       <<"g","i","r","l","s">>,
       <<"x","c","e","l">>,
       <<"t","e","a","m">> >>

StaffWords ==
    << <<"s","t","a","f","f">>,
       <<"i","n","s","t","r","u","c","t","o","r">>,
       <<"c","o","a","c","h">>,
       <<"t","e","a","c","h","e","r">>,
       <<"e","m","p","l","o","y","e","e">> >>

PricingWords ==
    << <<"p","r","i","c","i","n","g">>,
       <<"p","r","i","c","e">>,
       <<"f","e","e">>,
       <<"c","o","s","t">>,
       <<"t","u","i","t","i","o","n">>,
       <<"p","a","y","m","e","n","t">>,
       <<"r","a","t","e">> >>

AboutWords ==
    << <<"a","b","o","u","t">>,
       <<"s","t","o","r","y">>,
       <<"m","i","s","s","i","o","n">>,
       <<"h","i","s","t","o","r","y">>,
       <<"u","s">> >>

PolicyWords ==
    << <<"p","o","l","i","c","y">>,
       <<"r","u","l","e">>,
       <<"r","e","q","u","i","r","e","m","e","n","t">>,
       <<"w","a","i","v","e","r">>,
       <<"f","a","q">>,
       <<"p","o","l","i","c","i","e","s">> >>

ContactWords ==
    << <<"c","o","n","t","a","c","t">>,
       <<"l","o","c","a","t","i","o","n">>,
       <<"a","d","d","r","e","s","s">>,
       <<"d","i","r","e","c","t","i","o","n">> >>

EventWords ==
    << <<"e","v","e","n","t">>,
       <<"o","p","e","n","-","g","y","m">>,
       <<"f","i","e","l","d","-","t","r","i","p">>,
       <<"s","p","e","c","i","a","l">>,
       <<"p","l","a","y","-","g","r","o","u","p">> >>

JobWords ==
    << <<"j","o","b">>,
       <<"c","a","r","e","e","r">>,
       <<"e","m","p","l","o","y","m","e","n","t">>,
       <<"a","p","p","l","i","c","a","t","i","o","n">> >>

important_keywords ==
    << <<"p","r","o","g","r","a","m">>,
       <<"c","l","a","s","s">>,
       <<"c","o","u","r","s","e">>,
       <<"l","e","s","s","o","n">>,
       <<"s","t","a","f","f">>,
       <<"i","n","s","t","r","u","c","t","o","r">>,
       <<"c","o","a","c","h">>,
       <<"t","e","a","c","h","e","r">>,
       <<"a","b","o","u","t">>,
       <<"s","c","h","e","d","u","l","e">>,
       <<"c","a","l","e","n","d","a","r">>,
       <<"p","r","i","c","i","n","g">>,
       <<"p","r","i","c","e">>,
       <<"f","e","e">>,
       <<"c","o","s","t">>,
       <<"p","o","l","i","c","y">>,
       <<"r","e","g","i","s","t","r","a","t","i","o","n">>,
       <<"e","n","r","o","l","l">>,
       <<"c","o","n","t","a","c","t">>,
       <<"l","o","c","a","t","i","o","n">>,
       <<"f","a","c","i","l","i","t","y">> >>

nav_terms ==
    << <<"p","r","o","g","r","a","m","s">>,
       <<"c","l","a","s","s","e","s">>,
       <<"s","t","a","f","f">>,
       <<"a","b","o","u","t">>,
       <<"c","o","n","t","a","c","t">>,
       <<"s","c","h","e","d","u","l","e">>,
       <<"p","r","i","c","i","n","g">> >>

\* ------------------------------------------------------------- classifier
PageInfo(url, page_type, priority) ==
  [url |-> url, page_type |-> page_type, priority |-> priority,
   visited |-> FALSE, content_extracted |-> FALSE]

\* the branches of _categorize_page on the lowercased URL, first match
\* wins: <<page_type, priority>>, or None where the code returns early
CategoryOf(url_lower) ==
  IF AnyWordIn(DeepScheduleWords, url_lower) THEN <<"schedule", 1>>
  ELSE IF AnyWordIn(ScheduleWords, url_lower) THEN <<"schedule", 1>>
  ELSE IF AnyWordIn(ProgramWords, url_lower) THEN <<"programs", 2>>
  ELSE IF AnyWordIn(StaffWords, url_lower) THEN <<"staff", 3>>
  ELSE IF AnyWordIn(PricingWords, url_lower) THEN <<"pricing", 2>>
  ELSE IF AnyWordIn(AboutWords, url_lower) THEN <<"about", 4>>
  ELSE IF AnyWordIn(PolicyWords, url_lower) THEN <<"policies", 4>>
  ELSE IF AnyWordIn(ContactWords, url_lower) THEN None
  ELSE IF AnyWordIn(EventWords, url_lower) THEN <<"programs", 2>>
  ELSE IF AnyWordIn(JobWords, url_lower) THEN <<"about", 5>>
  ELSE <<"general", 4>>

\* _categorize_page of a URL whose spelling is url_chars: Some(PageInfo) or
\* None
CategorizeSpelled(url, url_chars) ==
  LET category == CategoryOf(Lower(url_chars)) IN
  IF category = None THEN None
  ELSE IF category[2] > 5 THEN None
  ELSE Some(PageInfo(url, category[1], category[2]))

\* _categorize_page: Some(PageInfo) or None
_categorize_page(url) == CategorizeSpelled(url, Chars[url])

\* -------------------------------------------------------- link discovery
\* the page budgets tried for max_pages: negative, zero, and positive ones
\* that cut the plan short or leave it whole
Budgets == {-1, 0, 1, 2}

base_url == "http://g.co"

\* urlparse(base_url).netloc
domain == "g.co"

\* priority the in-page script gives a link for its location
LocationPriority(location) ==
  CASE location \in {"header", "menu"} -> 1
    [] location = "sidebar" -> 2
    [] location = "footer" -> 4
    [] OTHER -> 3

Anchor(href, text, title, location) ==
  [href |-> href, text |-> text, title |-> title, location |-> location,
   priority |-> LocationPriority(location)]

\* the anchors a rendered main page may hold, in document order, as
\* page.evaluate reports them
PageAnchors ==
  << Anchor("http://g.co/about", "About", "", "header"),
     Anchor("http://g.co/contact", "Contact", "", "menu"),
     Anchor("http://g.co/Staff", "Coaches", "", "sidebar"),
     Anchor("http://g.co/schedule", "Schedule", "", "content"),
     Anchor("http://g.co/blog", "Blog", "Classes", "footer") >>

\* the sub-lists of s with at most n elements, order kept
RECURSIVE SubLists(_, _)
SubLists(s, n) ==
  IF s = <<>> \/ n = 0 THEN {<<>>}
  ELSE SubLists(Tail(s), n) \cup {<<s[1]>> \o t : t \in SubLists(Tail(s), n - 1)}

\* lists of at most n elements of S
RECURSIVE ListsOver(_, _)
ListsOver(S, n) ==
  IF n = 0 THEN {<<>>}
  ELSE LET shorter == ListsOver(S, n - 1)
       IN shorter \cup
          {Append(s, x) : s \in {t \in shorter : Len(t) = n - 1}, x \in S}

Range(s) == {s[i] : i \in 1..Len(s)}

\* the internal-link filter of _discover_important_links
IsInternalLink(link) ==
  /\ Len(Chars[link.href]) > 0
  /\ Contains(Chars[link.href], Chars[domain])
  /\ ~StartsWith(Chars[link.href], <<"t","e","l",":">>)
  /\ ~StartsWith(Chars[link.href], <<"m","a","i","l","t","o",":">>)
  /\ ~Contains(Lower(Chars[link.href]), <<"t","e","l",":">>)

InternalLinks(all_links) == SelectSeq(all_links, IsInternalLink)

\* sort key (x['priority'], x['text'].lower()) compared as Python tuples
LinkKeyLeq(a, b) ==
  \/ a.priority < b.priority
  \/ /\ a.priority = b.priority
     /\ StrLeq(Lower(Chars[a.text]), Lower(Chars[b.text]))

\* internal_links.sort(key=...): stable, ascending
RECURSIVE SortLinks(_)
SortLinks(s) ==
  IF s = <<>> THEN <<>>
  ELSE LET front == SortLinks(SubSeq(s, 1, Len(s) - 1))
           x == s[Len(s)]
       IN SelectSeq(front, LAMBDA y : LinkKeyLeq(y, x)) \o <<x>>
          \o SelectSeq(front, LAMBDA y : ~LinkKeyLeq(y, x))

IsHeaderNav(link) == link.location \in {"header", "menu"}

\* self._header_nav_urls as _discover_important_links stores it
HeaderNavUrls(internal_links) ==
  {internal_links[k].href : k \in {j \in 1..Len(internal_links) : IsHeaderNav(internal_links[j])}}

\* location_scores.get(location, 25)
LocationScore(location) ==
  CASE location \in {"header", "menu"} -> 100
    [] location = "sidebar" -> 50
    [] location = "footer" -> 10
    [] OTHER -> 25

\* the score _heuristic_link_filtering gives one link
LinkScore(link) ==
  LET link_text == Lower(Chars[link.text] \o <<" ">> \o Chars[link.title])
  IN LocationScore(link.location)
     + CountWordsIn(important_keywords, link_text) * 20
     + CountWordsIn(nav_terms, link_text) * 30

ScoredLink(link) ==
  [href |-> link.href, score |-> LinkScore(link), location |-> link.location]

RECURSIVE MapScored(_)
MapScored(links) ==
  IF links = <<>> THEN <<>>
  ELSE <<ScoredLink(links[1])>> \o MapScored(Tail(links))

\* scored_links.sort(key=score, reverse=True): stable, descending
RECURSIVE SortByScoreDesc(_)
SortByScoreDesc(s) ==
  IF s = <<>> THEN <<>>
  ELSE LET front == SortByScoreDesc(SubSeq(s, 1, Len(s) - 1))
           x == s[Len(s)]
       IN SelectSeq(front, LAMBDA y : y.score >= x.score) \o <<x>>
          \o SelectSeq(front, LAMBDA y : y.score < x.score)

Hrefs(s) == [k \in 1..Len(s) |-> s[k].href]

\* _heuristic_link_filtering
_heuristic_link_filtering(links) ==
  LET scored_links == SortByScoreDesc(SelectSeq(MapScored(links), LAMBDA l : l.score > 30))
      header_nav_links == Hrefs(SelectSeq(scored_links, IsHeaderNav))
      other_links == Hrefs(SelectSeq(scored_links, LAMBDA l : ~IsHeaderNav(l)))
      important_links == Take(header_nav_links, 15) \o Take(other_links, 10)
  IN Take(DedupKeepFirst(important_links), 25)

\* the discovery oracle's answer: it raised, its text holds no {...}, the
\* {...} is not JSON, an entry has no 'url' key, or it is a list of entries
OracleLinkEntries(all_links) ==
  {[url |-> u, importance |-> i] : u \in {all_links[k].href : k \in 1..Len(all_links)},
                                   i \in {"high", "none"}}

\* for link in result['important_links']: keep the url if importance is known
ImportantUrls(entries) ==
  LET kept == SelectSeq(entries, LAMBDA e : e.importance \in {"high", "medium", "low"})
  IN [k \in 1..Len(kept) |-> kept[k].url]

OracleFailures == {"raise", "no_json", "bad_json", "key_error"}

\* link discovery without the fallback: a failed oracle gives no links
_discover_important_links_NoFallback(all_links, oracle, entries) ==
  IF oracle = "ok" THEN ImportantUrls(entries) ELSE <<>>

\* _discover_important_links: the oracle's urls, or the heuristic fallback
_discover_important_links(all_links, oracle, entries) ==
  LET internal_links == SortLinks(InternalLinks(all_links))
  IN IF oracle = "ok" THEN ImportantUrls(entries)
     ELSE _heuristic_link_filtering(internal_links)

\* ------------------------------------------------------------- frontier
\* _is_header_navigation_link
_is_header_navigation_link(url, nav_urls) == url \in nav_urls

\* the header override ranking a header link above the first tier
HeaderOverride_AboveFirst(page_info, is_header) ==
  IF is_header THEN [page_info EXCEPT !.priority = 0] ELSE page_info

\* if await self._is_header_navigation_link(...): page_info.priority = 1
HeaderOverride(page_info, is_header) ==
  IF is_header THEN [page_info EXCEPT !.priority = 1] ELSE page_info

\* the admission loop without the header override of the priority
RECURSIVE AdmittedPages_NoOverride(_, _, _)
AdmittedPages_NoOverride(links, known_urls, nav_urls) ==
  IF links = <<>> THEN <<>>
  ELSE LET page_info == _categorize_page(links[1])
           rest == AdmittedPages_NoOverride(Tail(links), known_urls, nav_urls)
       IN IF page_info # None /\ page_info[1].url \notin known_urls
            THEN <<page_info[1]>> \o rest
            ELSE rest

\* the loop of _discover_site_structure over the discovered links: the
\* candidates admitted, in link order.  known_urls is the url list of
\* self.discovered_pages, which the loop reads but does not extend.
RECURSIVE AdmittedPages(_, _, _)
AdmittedPages(links, known_urls, nav_urls) ==
  IF links = <<>> THEN <<>>
  ELSE LET page_info == _categorize_page(links[1])
           rest == AdmittedPages(Tail(links), known_urls, nav_urls)
       IN IF page_info # None /\ page_info[1].url \notin known_urls
            THEN <<HeaderOverride(page_info[1],
                                  _is_header_navigation_link(links[1], nav_urls))>> \o rest
            ELSE rest

\* list.sort(key=lambda x: x.priority): stable, ascending
RECURSIVE SortByPriority(_)
SortByPriority(s) ==
  IF s = <<>> THEN <<>>
  ELSE LET front == SortByPriority(SubSeq(s, 1, Len(s) - 1))
           x == s[Len(s)]
       IN SelectSeq(front, LAMBDA y : y.priority <= x.priority) \o <<x>>
          \o SelectSeq(front, LAMBDA y : y.priority > x.priority)

\* the two buckets with the later of two equal candidates put first
DiscoveredPages_LaterFirst(links, known_urls, nav_urls) ==
  LET admitted == AdmittedPages(links, known_urls, nav_urls)
      reversed == [k \in 1..Len(admitted) |-> admitted[Len(admitted) + 1 - k]]
      header_pages == SelectSeq(reversed, LAMBDA p : _is_header_navigation_link(p.url, nav_urls))
      other_pages == SelectSeq(reversed, LAMBDA p : ~_is_header_navigation_link(p.url, nav_urls))
  IN SortByPriority(header_pages) \o SortByPriority(other_pages)

\* header_pages + other_pages of _discover_site_structure, each sorted
DiscoveredPages(links, known_urls, nav_urls) ==
  LET admitted == AdmittedPages(links, known_urls, nav_urls)
      header_pages == SelectSeq(admitted, LAMBDA p : _is_header_navigation_link(p.url, nav_urls))
      other_pages == SelectSeq(admitted, LAMBDA p : ~_is_header_navigation_link(p.url, nav_urls))
  IN SortByPriority(header_pages) \o SortByPriority(other_pages)

\* the positions of a list, ascending
Indices(pages) == [k \in 1..Len(pages) |-> k]

\* Python's s[:n] for any integer n (a negative n counts from the end)
SliceTo(s, n) ==
  IF n >= 0 THEN Take(s, n)
  ELSE IF Len(s) + n > 0 THEN SubSeq(s, 1, Len(s) + n) ELSE <<>>

\* the visit plan with the two groups in the wrong order
PagesToVisit_OthersFirst(pages, budget) ==
  LET header_pages == SelectSeq(Indices(pages), LAMBDA k : ~pages[k].visited /\ pages[k].priority = 1)
      other_pages == SelectSeq(Indices(pages), LAMBDA k : ~pages[k].visited /\ pages[k].priority > 1)
  IN SliceTo(other_pages \o header_pages, budget)

\* pages_to_visit of _browse_and_extract_content, as positions in
\* discovered_pages (the plan holds the PageInfo objects themselves)
PagesToVisit(pages, budget) ==
  LET header_pages == SelectSeq(Indices(pages), LAMBDA k : ~pages[k].visited /\ pages[k].priority = 1)
      other_pages == SelectSeq(Indices(pages), LAMBDA k : ~pages[k].visited /\ pages[k].priority > 1)
  IN SliceTo(header_pages \o other_pages, budget)

\* ------------------------------------------------------------ extraction
EmptyDict == <<>>

\* d.get(k, default)
Get(d, k, default) == IF k \in DOMAIN d THEN d[k] ELSE default

ExtractedContent(url, page_type) ==
  [url |-> url, page_type |-> page_type, business_info |-> EmptyDict,
   programs |-> <<>>, instructors |-> <<>>, policies |-> <<>>,
   schedules |-> <<>>, pricing |-> <<>>]

\* what the oracle's JSON holds when it answers the prompt of a page type;
\* its strings are spelled out, as the synthesis compares them by character
OracleJson(page_type) ==
  CASE page_type = "programs" ->
         [programs |-> <<[name |-> Chars["Tumbling"], description |-> Chars["Fun"]]>>]
    [] page_type = "staff" ->
         [instructors |-> <<[name |-> Chars["Ann"], title |-> Chars["Coach"]]>>]
    [] page_type = "schedule" ->
         [schedules |-> <<[program |-> Chars["Tumbling"], day |-> Chars["Monday"],
                         time |-> Chars["4:30 PM"]]>>]
    [] page_type = "pricing" ->
         [pricing |-> <<[program |-> Chars["Tumbling"], price |-> Chars["$75/mo"]]>>]
    [] page_type = "policies" ->
         [policies |-> <<Chars["No refunds after the second week"]>>]
    [] OTHER ->
         [business_info |-> [name |-> Chars["G Gym"], phone |-> Chars["555"]]]

\* the JSON objects the oracle may answer with on a page: the one its prompt
\* asks for; the prompt of a general page asks for nothing in particular
OracleAnswers(page_type) ==
  IF page_type = "general"
    THEN {OracleJson(t) : t \in {"programs", "staff", "schedule", "pricing", "policies", "about"}}
    ELSE {OracleJson(page_type)}

\* the oracle's response text: no {...} in it, a {...} that is not JSON, or JSON
OracleTexts(page_type) ==
  {[kind |-> "no_json"], [kind |-> "bad_json"],
   [kind |-> "json", data |-> OracleJson(page_type)]}

\* _parse_ai_response
_parse_ai_response(response_text) ==
  IF response_text.kind = "json" THEN response_text.data ELSE EmptyDict

\* the program record made of one schedule entry
ScheduleProgram(schedule, url) ==
  [name |-> Get(schedule, "program", Chars["Unknown Program"]),
   schedule |-> Get(schedule, "day", <<>>) \o <<" ">> \o Get(schedule, "time", <<>>),
   instructor |-> Get(schedule, "instructor", <<>>),
   duration |-> Get(schedule, "duration", 60),
   _source_page |-> url]

\* the program record made of one pricing entry
PriceProgram(price, url) ==
  [name |-> Get(price, "program", Chars["Unknown Program"]),
   price |-> Get(price, "price", <<>>),
   billing_frequency |-> Get(price, "billing_frequency", <<>>),
   _source_page |-> url]

\* program['_source_page'] = url
WithSource(program, url) ==
  [k \in DOMAIN program \cup {"_source_page"} |->
     IF k = "_source_page" THEN url ELSE program[k]]

\* the routing with a general page treated as an about page
PopulateContent_GeneralAsAbout(page_info, parsed_data) ==
  LET content == ExtractedContent(page_info.url, page_info.page_type)
      url == page_info.url
  IN CASE page_info.page_type = "programs" ->
            LET programs == Get(parsed_data, "programs", <<>>)
            IN [content EXCEPT !.programs = [k \in 1..Len(programs) |-> WithSource(programs[k], url)]]
       [] page_info.page_type = "staff" ->
            [content EXCEPT !.instructors = Get(parsed_data, "instructors", <<>>)]
       [] page_info.page_type = "schedule" ->
            LET schedules == Get(parsed_data, "schedules", <<>>)
            IN [content EXCEPT !.programs = [k \in 1..Len(schedules) |-> ScheduleProgram(schedules[k], url)],
                               !.schedules = schedules]
       [] page_info.page_type = "pricing" ->
            LET pricing == Get(parsed_data, "pricing", <<>>)
            IN [content EXCEPT !.programs = [k \in 1..Len(pricing) |-> PriceProgram(pricing[k], url)],
                               !.pricing = pricing]
       [] page_info.page_type = "policies" ->
            [content EXCEPT !.policies = Get(parsed_data, "policies", <<>>)]
       [] page_info.page_type \in {"about", "contact", "general"} ->
            [content EXCEPT !.business_info = Get(parsed_data, "business_info", EmptyDict)]
       [] OTHER -> content

\* the part of _extract_page_content after the oracle answered: route the
\* parsed data into the fragment by page type
PopulateContent(page_info, parsed_data) ==
  LET content == ExtractedContent(page_info.url, page_info.page_type)
      url == page_info.url
  IN CASE page_info.page_type = "programs" ->
            LET programs == Get(parsed_data, "programs", <<>>)
            IN [content EXCEPT !.programs = [k \in 1..Len(programs) |-> WithSource(programs[k], url)]]
       [] page_info.page_type = "staff" ->
            [content EXCEPT !.instructors = Get(parsed_data, "instructors", <<>>)]
       [] page_info.page_type = "schedule" ->
            LET schedules == Get(parsed_data, "schedules", <<>>)
            IN [content EXCEPT !.programs = [k \in 1..Len(schedules) |-> ScheduleProgram(schedules[k], url)],
                               !.schedules = schedules]
       [] page_info.page_type = "pricing" ->
            LET pricing == Get(parsed_data, "pricing", <<>>)
            IN [content EXCEPT !.programs = [k \in 1..Len(pricing) |-> PriceProgram(pricing[k], url)],
                               !.pricing = pricing]
       [] page_info.page_type = "policies" ->
            [content EXCEPT !.policies = Get(parsed_data, "policies", <<>>)]
       [] page_info.page_type \in {"about", "contact"} ->
            [content EXCEPT !.business_info = Get(parsed_data, "business_info", EmptyDict)]
       [] OTHER -> content

\* _extract_page_content once the page is revealed: Some(fragment) or None
_extract_page_content(page_info, screenshots, oracle_raises, response_text) ==
  IF ~screenshots THEN None
  ELSE IF oracle_raises THEN None
  ELSE Some(PopulateContent(page_info, _parse_ai_response(response_text)))

\* ------------------------------------------------------------------ state
VARIABLES
  pc,                \* where extract_comprehensive_business_data stands
  max_pages,         \* self.max_pages
  all_links,         \* the anchors of the main page, as page.evaluate reports them
  browser,           \* the local variable browser: "None" or "Browser"
  browser_state,     \* the launched browser: "not_launched", "running", "closed"
  header_nav_urls,   \* self._header_nav_urls
  discovered_pages,  \* self.discovered_pages
  pages_to_visit,    \* the visit plan: positions in discovered_pages
  i,                 \* position of the crawl loop in pages_to_visit
  visited_urls,      \* self.visited_urls
  extracted_content, \* self.extracted_content
  result,            \* "running", "returned" (a profile) or "raised"
  links,             \* what _discover_important_links returned
  link_oracle,       \* how the discovery oracle answered ("none" before)
  failed_phase,      \* the phase whose error ended the run ("none" otherwise)
  attempts,          \* the pages the crawl loop took up, each with its outcome
  fn,                \* the function a function-level specification applied
  args,              \* the arguments it was applied to
  ret                \* what it returned

vars ==
  <<pc, max_pages, all_links, browser, browser_state, header_nav_urls,
    discovered_pages, pages_to_visit, i, visited_urls, extracted_content,
    result, links, link_oracle, failed_phase, attempts, fn, args, ret>>

discovery_vars == <<header_nav_urls, discovered_pages, links, link_oracle>>
crawl_vars == <<pages_to_visit, i, visited_urls, extracted_content, attempts>>
input_vars == <<max_pages, all_links>>
unit_vars == <<fn, args, ret>>
run_vars ==
  <<pc, max_pages, all_links, browser, browser_state, header_nav_urls,
    discovered_pages, pages_to_visit, i, visited_urls, extracted_content,
    result, links, link_oracle, failed_phase, attempts>>

\* a run applies no function on its own: the function-level variables rest
NoCall ==
  /\ fn = "none"
  /\ args = <<>>
  /\ ret = <<>>

\* __init__, with the run's inputs: the budget and the main page's anchors
Init ==
  /\ pc = "setup"
  /\ max_pages \in Budgets
  /\ all_links \in SubLists(PageAnchors, MaxLinks)
  /\ browser = "None"
  /\ browser_state = "not_launched"
  /\ header_nav_urls = {}
  /\ discovered_pages = <<>>
  /\ pages_to_visit = <<>>
  /\ i = 0
  /\ visited_urls = {}
  /\ extracted_content = <<>>
  /\ result = "running"
  /\ links = <<>>
  /\ link_oracle = "none"
  /\ failed_phase = "none"
  /\ attempts = <<>>
  /\ NoCall

\* except: raise / finally: if browser: await browser.close()
Raise(phase) ==
  /\ pc' = "done"
  /\ result' = "raised"
  /\ failed_phase' = phase
  /\ browser_state' = IF browser = "Browser" THEN "closed" ELSE browser_state
  /\ UNCHANGED browser

\* _setup_browser returns browser, context and page
SetupOk ==
  /\ pc = "setup"
  /\ pc' = "discover"
  /\ browser' = "Browser"
  /\ browser_state' = "running"
  /\ UNCHANGED <<input_vars, unit_vars, discovery_vars, crawl_vars, result, failed_phase>>

\* _setup_browser raises before chromium.launch returned a browser
SetupFailBeforeLaunch ==
  /\ pc = "setup"
  /\ Raise("setup")
  /\ UNCHANGED <<input_vars, unit_vars, discovery_vars, crawl_vars>>

\* _setup_browser raises after the launch (new_context, new_page or
\* add_init_script): the local variable browser of the run is still None
SetupFailAfterLaunch ==
  /\ pc = "setup"
  /\ pc' = "done"
  /\ result' = "raised"
  /\ failed_phase' = "setup"
  /\ browser_state' = "running"
  /\ UNCHANGED <<browser, input_vars, unit_vars, discovery_vars, crawl_vars>>

\* _discover_site_structure raises: page.goto(base_url), a screenshot or
\* page.evaluate failed; nothing in the phase catches it
DiscoverFail ==
  /\ pc = "discover"
  /\ Raise("discover")
  /\ UNCHANGED <<input_vars, unit_vars, discovery_vars, crawl_vars>>

\* _discover_site_structure, given how the discovery oracle answered
Discover(oracle, entries) ==
  LET internal_links == SortLinks(InternalLinks(all_links))
      nav_urls == HeaderNavUrls(internal_links)
      found == _discover_important_links(all_links, oracle, entries)
      known_urls == {discovered_pages[k].url : k \in 1..Len(discovered_pages)}
  IN /\ pc = "discover"
     /\ pc' = "browse"
     /\ header_nav_urls' = nav_urls
     /\ links' = found
     /\ link_oracle' = oracle
     /\ discovered_pages' = DiscoveredPages(found, known_urls, nav_urls)
     /\ UNCHANGED <<input_vars, unit_vars, browser, browser_state, crawl_vars, result, failed_phase>>

\* the oracle answered with a parsable list of important links
DiscoverWithOracle ==
  /\ pc = "discover"
  /\ \E entries \in ListsOver(OracleLinkEntries(all_links), MaxOracleLinks) :
       Discover("ok", entries)

\* the oracle raised or its answer could not be used
DiscoverWithFallback ==
  /\ pc = "discover"
  /\ \E failure \in OracleFailures : Discover(failure, <<>>)

\* _browse_and_extract_content up to the loop: build the visit plan
BrowseBegin ==
  /\ pc = "browse"
  /\ pc' = "visit"
  /\ pages_to_visit' = PagesToVisit(discovered_pages, max_pages)
  /\ i' = 1
  /\ UNCHANGED <<input_vars, unit_vars, browser, browser_state, discovery_vars,
                 visited_urls, extracted_content, attempts, result, failed_phase>>

\* the page the loop is at
CurrentPage == pages_to_visit[i]

\* the loop tries a page again when its rendering failed
NextPage_Retry(outcome) ==
  /\ pc = "visit"
  /\ i <= Len(pages_to_visit)
  /\ i' = IF outcome = "render_failed" /\ Len(attempts) < Len(pages_to_visit) THEN i ELSE i + 1
  /\ attempts' = Append(attempts, [page |-> CurrentPage, outcome |-> outcome])
  /\ UNCHANGED <<pc, input_vars, unit_vars, browser, browser_state, header_nav_urls,
                 links, link_oracle, pages_to_visit, result, failed_phase>>

\* the loop moves on, having taken up the current page
NextPage(outcome) ==
  /\ pc = "visit"
  /\ i <= Len(pages_to_visit)
  /\ i' = i + 1
  /\ attempts' = Append(attempts, [page |-> CurrentPage, outcome |-> outcome])
  /\ UNCHANGED <<pc, input_vars, unit_vars, browser, browser_state, header_nav_urls,
                 links, link_oracle, pages_to_visit, result, failed_phase>>

\* a visit that leaves the visited flag as it was
MarkVisited_FlagNotSet(pages) == pages

\* page_info.visited = True; self.visited_urls.add(page_info.url)
MarkVisited(pages) == [pages EXCEPT ![CurrentPage].visited = TRUE]

\* a failed navigation that is not caught and ends the run
VisitNavigationFails_Propagates ==
  /\ pc = "visit"
  /\ i <= Len(pages_to_visit)
  /\ Raise("browse")
  /\ UNCHANGED <<input_vars, unit_vars, discovery_vars, crawl_vars>>

\* page.goto or the wait after it raises: caught, continue
VisitNavigationFails ==
  /\ NextPage("navigation_failed")
  /\ UNCHANGED <<discovered_pages, visited_urls, extracted_content>>

\* the page is reached, then the screenshot or the reveal of the page
\* (scrolling, captures, inner_text) raises: caught, continue
VisitRenderFails ==
  /\ NextPage("render_failed")
  /\ discovered_pages' = MarkVisited(discovered_pages)
  /\ visited_urls' = visited_urls \cup {discovered_pages[CurrentPage].url}
  /\ UNCHANGED extracted_content

\* the page is reached and revealed and _extract_page_content returns
Visit(outcome, screenshots, oracle_raises, response_text) ==
  LET page_info == MarkVisited(discovered_pages)[CurrentPage]
      content == _extract_page_content(page_info, screenshots, oracle_raises, response_text)
  IN /\ NextPage(outcome)
     /\ visited_urls' = visited_urls \cup {page_info.url}
     /\ IF content # None
          THEN /\ extracted_content' = Append(extracted_content, content[1])
               /\ discovered_pages' =
                    [MarkVisited(discovered_pages) EXCEPT ![CurrentPage].content_extracted = TRUE]
          ELSE /\ extracted_content' = extracted_content
               /\ discovered_pages' = MarkVisited(discovered_pages)

\* no screenshot could be captured
VisitNoScreenshot ==
  /\ pc = "visit" /\ i <= Len(pages_to_visit)
  /\ Visit("no_screenshot", FALSE, FALSE, [kind |-> "no_json"])

\* the oracle call raises
VisitOracleRaises ==
  /\ pc = "visit" /\ i <= Len(pages_to_visit)
  /\ Visit("oracle_raised", TRUE, TRUE, [kind |-> "no_json"])

\* the oracle answers with text that is not JSON
VisitOracleUnparsable ==
  /\ pc = "visit" /\ i <= Len(pages_to_visit)
  /\ \E kind \in {"no_json", "bad_json"} :
       Visit("oracle_unparsable", TRUE, FALSE, [kind |-> kind])

\* the oracle answers with JSON
VisitOracleAnswers ==
  /\ pc = "visit" /\ i <= Len(pages_to_visit)
  /\ \E data \in OracleAnswers(discovered_pages[CurrentPage].page_type) :
       Visit("extracted", TRUE, FALSE, [kind |-> "json", data |-> data])

\* the loop of _browse_and_extract_content is over
BrowseEnd ==
  /\ pc = "visit"
  /\ i > Len(pages_to_visit)
  /\ pc' = "synthesize"
  /\ UNCHANGED <<input_vars, unit_vars, browser, browser_state, discovery_vars, crawl_vars,
                 result, failed_phase>>

\* _synthesize_all_data and _validate_and_clean_data, then return and
\* finally: browser.close()
Synthesize ==
  /\ pc = "synthesize"
  /\ pc' = "done"
  /\ result' = "returned"
  /\ browser_state' = IF browser = "Browser" THEN "closed" ELSE browser_state
  /\ UNCHANGED <<browser, input_vars, unit_vars, discovery_vars, crawl_vars, failed_phase>>

\* _synthesize_all_data or _validate_and_clean_data raises (a name that is
\* not a string reaches .lower() or .strip()): re-raised, finally closes
SynthesizeFail ==
  /\ pc = "synthesize"
  /\ Raise("synthesize")
  /\ UNCHANGED <<input_vars, unit_vars, discovery_vars, crawl_vars>>

Next ==
  \/ SetupOk
  \/ SetupFailBeforeLaunch
  \/ SetupFailAfterLaunch
  \/ DiscoverFail
  \/ DiscoverWithOracle
  \/ DiscoverWithFallback
  \/ BrowseBegin
  \/ VisitNavigationFails
  \/ VisitRenderFails
  \/ VisitNoScreenshot
  \/ VisitOracleRaises
  \/ VisitOracleUnparsable
  \/ VisitOracleAnswers
  \/ BrowseEnd
  \/ Synthesize
  \/ SynthesizeFail

Spec == Init /\ [][Next]_vars

\* a step of the crawl loop of _browse_and_extract_content
CrawlStep ==
  \/ VisitNavigationFails
  \/ VisitRenderFails
  \/ VisitNoScreenshot
  \/ VisitOracleRaises
  \/ VisitOracleUnparsable
  \/ VisitOracleAnswers
  \/ BrowseEnd

\* the crawl is one control flow in which every await returns or raises:
\* the loop, once entered, keeps stepping until it is over
FairSpec == Spec /\ WF_vars(CrawlStep)

\* ------------------------------------------------------------ properties
PlanBuilt == pc \in {"visit", "synthesize"} \/ (pc = "done" /\ result = "returned")

PlanPriority(k) == discovered_pages[pages_to_visit[k]].priority

\* the pages the crawl loop has taken up so far, in order
AttemptedPages == [k \in 1..Len(attempts) |-> attempts[k].page]

\* C1: in the visit plan every candidate of priority 1 stands before every
\* candidate of priority greater than 1, and the crawl takes the pages up in
\* that order.
C1_HeaderFirst ==
  PlanBuilt =>
    /\ \A a, b \in 1..Len(pages_to_visit) :
         (PlanPriority(a) = 1 /\ PlanPriority(b) > 1) => a < b
    /\ \A a, b \in 1..Len(attempts) :
         (discovered_pages[attempts[a].page].priority = 1
            /\ discovered_pages[attempts[b].page].priority > 1) => a < b

\* C1 witness: a finished crawl took up a priority-1 page and a lower one
C1_Witness ==
  /\ pc = "synthesize"
  /\ \E a, b \in 1..Len(attempts) :
       /\ discovered_pages[attempts[a].page].priority = 1
       /\ discovered_pages[attempts[b].page].priority > 1

\* C2: for every budget max_pages, negative ones included, no candidate is
\* planned (and so navigated to) beyond the budget: the visit plan holds at
\* most max_pages candidates.
C2_PlanWithinBudget ==
  PlanBuilt => \A k \in 1..Len(pages_to_visit) : k <= max_pages

\* C3: after discovery no two candidates of discovered_pages have the same
\* url, also when link discovery returns a url more than once.
C3_UniqueUrls ==
  \A a, b \in 1..Len(discovered_pages) :
    discovered_pages[a].url = discovered_pages[b].url => a = b

\* C4: a planned page whose navigation or rendering raised ends the run
\* with visited = true and content_extracted = false.
C4_FailedPageVisited ==
  (pc = "done" /\ result = "returned") =>
    \A k \in 1..Len(attempts) :
      attempts[k].outcome \in {"navigation_failed", "render_failed"} =>
        /\ discovered_pages[attempts[k].page].visited
        /\ ~discovered_pages[attempts[k].page].content_extracted

\* the crawl loop takes up a page in this step
TakesUpPage == Len(attempts') = Len(attempts) + 1

\* C5: when the oracle call for a visited page raises or returns text that
\* is not JSON, exactly one fragment with that page's url and nothing else
\* in it is appended to extracted_content, and the crawl moves on.
C5_EmptyFragmentOnOracleFailure ==
  [][ (TakesUpPage /\ attempts'[Len(attempts')].outcome \in {"oracle_raised", "oracle_unparsable"}) =>
        LET page_info == discovered_pages[attempts'[Len(attempts')].page]
        IN /\ extracted_content' =
                Append(extracted_content, ExtractedContent(page_info.url, page_info.page_type))
           /\ i' = i + 1 ]_vars

\* C6: whatever fails on whichever planned pages, the crawl takes up every
\* candidate of the visit plan, in plan order, and then reaches synthesis.
C6_EveryPageAttempted ==
  (pc = "visit") ~> (pc = "synthesize" /\ AttemptedPages = pages_to_visit)

\* C6 witness: synthesis is reached although the first of several planned
\* pages failed
C6_Witness ==
  /\ pc = "synthesize"
  /\ Len(pages_to_visit) >= 2
  /\ AttemptedPages = pages_to_visit
  /\ attempts[1].outcome # "extracted"

\* C7: a run ends with a raised error only when browser setup failed; any
\* other failure, a failed navigation to the base url in discovery included,
\* is recovered and the run returns a profile.
C7_OnlySetupFatal ==
  pc = "done" => (result = "raised" <=> failed_phase = "setup")

\* C8: a candidate is navigated to at most once in a run: the loop never
\* takes up a page it took up before or one already visited, and a visited
\* flag, once true, stays true.
C8_VisitedOnce ==
  [][ /\ \A k \in 1..Len(discovered_pages) :
           discovered_pages[k].visited =>
             (k <= Len(discovered_pages') /\ discovered_pages'[k].visited)
      /\ TakesUpPage =>
           LET page == attempts'[Len(attempts')].page
           IN /\ \A k \in 1..Len(attempts) : attempts[k].page # page
              /\ ~discovered_pages[page].visited ]_vars

\* C8 witness: the run ended with a page visited but not extracted, after
\* the loop went on to another page
C8_Witness ==
  /\ pc = "done"
  /\ Len(attempts) >= 2
  /\ LET page == discovered_pages[attempts[1].page]
     IN page.visited /\ ~page.content_extracted

\* C9: every discovered candidate whose url is in the header/menu url set
\* has priority 1, whatever tier _categorize_page gave its url.
C9_HeaderLinksFirstTier ==
  \A k \in 1..Len(discovered_pages) :
    discovered_pages[k].url \in header_nav_urls => discovered_pages[k].priority = 1

\* C9 witness: a header link that the classifier put in a lower tier
C9_Witness ==
  \E k \in 1..Len(discovered_pages) :
    /\ discovered_pages[k].url \in header_nav_urls
    /\ _categorize_page(discovered_pages[k].url)[1].priority > 1

\* the internal links with a score above the threshold
ScoredInternalLinks ==
  {l \in Range(InternalLinks(all_links)) : LinkScore(l) > 30}

\* C10: when the discovery oracle raises or its answer cannot be parsed,
\* link discovery does not fail: discovery completes with the heuristic
\* selection, which is fixed by the internal links' location and text: the
\* hrefs of the links scoring above 30, each once, header/menu links first,
\* and within each of the two groups by descending score.
C10_HeuristicFallback ==
  link_oracle \in OracleFailures =>
    /\ failed_phase # "discover"
    /\ pc = "browse" =>
         /\ links = _heuristic_link_filtering(SortLinks(InternalLinks(all_links)))
         /\ Range(links) = {l.href : l \in ScoredInternalLinks}
         /\ \A a, b \in 1..Len(links) : links[a] = links[b] => a = b
         /\ \A a, b \in 1..Len(links) :
              a < b =>
                \E la, lb \in ScoredInternalLinks :
                  /\ la.href = links[a] /\ lb.href = links[b]
                  /\ (IsHeaderNav(lb) => IsHeaderNav(la))
                  /\ (IsHeaderNav(la) <=> IsHeaderNav(lb)) => LinkScore(la) >= LinkScore(lb)

\* C10 witness: the oracle failed and the heuristic picked two links, the
\* header link ahead of a content link
C10_Witness ==
  /\ link_oracle \in OracleFailures
  /\ links = <<"http://g.co/about", "http://g.co/schedule">>

\* a float that is a quotient of two small integers: <<numerator, denominator>>
RatEq(q, r) == q[1] * r[2] = r[1] * q[2]

\* the confidence formula with the guard against no pages left out
Confidence_Unguarded(extracted_pages, total_pages) ==
  IF extracted_pages >= total_pages THEN <<1, 1>> ELSE <<extracted_pages, total_pages>>

\* the arithmetic of _calculate_confidence: 0.0 for no pages, else
\* min(1.0, extracted_pages / total_pages)
Confidence(extracted_pages, total_pages) ==
  IF total_pages = 0 THEN <<0, 1>>
  ELSE IF extracted_pages >= total_pages THEN <<1, 1>>
  ELSE <<extracted_pages, total_pages>>

\* _calculate_confidence on the extractor's state
_calculate_confidence == Confidence(Len(extracted_content), Len(discovered_pages))

\* C22: the extraction confidence equals the number of extracted fragments
\* divided by the number of discovered candidates, is 0 when no candidate
\* was discovered, and lies in [0,1] in every reachable state of a run; 7
\* extracted of 10 discovered gives 7/10.
C22_ConfidenceIsRatio ==
  LET confidence == _calculate_confidence
      total_pages == Len(discovered_pages)
  IN /\ confidence[2] > 0
     /\ 0 <= confidence[1] /\ confidence[1] <= confidence[2]
     /\ total_pages = 0 => confidence[1] = 0
     /\ total_pages > 0 => RatEq(confidence, <<Len(extracted_content), total_pages>>)
     /\ RatEq(Confidence(7, 10), <<7, 10>>)

\* C22 witness: a run returned with some but not all of its discovered
\* candidates extracted
C22_Witness ==
  /\ pc = "done" /\ result = "returned"
  /\ 0 < Len(extracted_content)
  /\ Len(extracted_content) < Len(discovered_pages)
  /\ RatEq(_calculate_confidence, <<1, 2>>)

\* the candidates that carry visited = True
VisitedCandidates == {k \in 1..Len(discovered_pages) : discovered_pages[k].visited}

\* C27: in every reachable state of the crawl a candidate with
\* content_extracted = true has visited = true, visited_urls is a subset of
\* the URLs in the visit plan, every fragment's URL is in visited_urls, and
\* the number of fragments is at most the number of visited candidates,
\* which is at most the plan length.
C27_CrawlBookkeeping ==
  /\ \A k \in 1..Len(discovered_pages) :
       discovered_pages[k].content_extracted => discovered_pages[k].visited
  /\ visited_urls \subseteq
       {discovered_pages[pages_to_visit[k]].url : k \in 1..Len(pages_to_visit)}
  /\ \A k \in 1..Len(extracted_content) : extracted_content[k].url \in visited_urls
  /\ Len(extracted_content) <= Cardinality(VisitedCandidates)
  /\ Cardinality(VisitedCandidates) <= Len(pages_to_visit)

\* C27 witness: the loop is over a plan of two pages, both visited, one of
\* them without a fragment
C27_Witness ==
  /\ pc = "synthesize"
  /\ Len(pages_to_visit) = 2
  /\ Cardinality(VisitedCandidates) = 2
  /\ Len(extracted_content) = 1
  /\ \E k \in VisitedCandidates : ~discovered_pages[k].content_extracted

\* C28: a visited page of category general contributes a fragment whose
\* programs, instructors, policies, schedules, pricing and business_info
\* are all empty, whatever the oracle returned for it, and that page is
\* still marked content_extracted = true and counted in the confidence
\* numerator.
C28_GeneralPageEmptyFragment ==
  [][ (/\ TakesUpPage
       /\ attempts'[Len(attempts')].outcome \in {"extracted", "oracle_unparsable"}
       /\ discovered_pages[attempts'[Len(attempts')].page].page_type = "general") =>
        LET page == attempts'[Len(attempts')].page
            url == discovered_pages[page].url
        IN /\ extracted_content' = Append(extracted_content, ExtractedContent(url, "general"))
           /\ discovered_pages'[page].visited
           /\ discovered_pages'[page].content_extracted
           /\ RatEq(_calculate_confidence',
                    <<Len(extracted_content) + 1, Len(discovered_pages)>>) ]_vars

\* C28 witness: a returned run in which the oracle answered on a general
\* page: the page is marked extracted and its fragment is empty
C28_Witness ==
  /\ pc = "done" /\ result = "returned"
  /\ \E k \in 1..Len(attempts) :
       /\ attempts[k].outcome = "extracted"
       /\ discovered_pages[attempts[k].page].page_type = "general"
       /\ discovered_pages[attempts[k].page].content_extracted
       /\ \E j \in 1..Len(extracted_content) :
            extracted_content[j] =
              ExtractedContent(discovered_pages[attempts[k].page].url, "general")

\* C29: on every path by which extract_comprehensive_business_data ends
\* after a browser was launched (normal return, or an error raised in setup
\* after launch, discovery, crawl, synthesis or validation), the browser
\* has been closed.
C29_BrowserClosedAtEnd ==
  (pc = "done" /\ browser_state # "not_launched") => browser_state = "closed"

\* ---------------------------------------- function-level specifications
\* A function-level specification applies one function of the pipeline to
\* an input drawn from a bounded set: fn names the function once applied,
\* args holds its input and ret its result.  No run is under way.
RunParked ==
  /\ pc = "parked"
  /\ max_pages = 0
  /\ all_links = <<>>
  /\ browser = "None"
  /\ browser_state = "not_launched"
  /\ header_nav_urls = {}
  /\ discovered_pages = <<>>
  /\ pages_to_visit = <<>>
  /\ i = 0
  /\ visited_urls = {}
  /\ extracted_content = <<>>
  /\ result = "running"
  /\ links = <<>>
  /\ link_oracle = "none"
  /\ failed_phase = "none"
  /\ attempts = <<>>

\* sep.join(parts)
RECURSIVE Join(_, _)
Join(sep, parts) ==
  IF parts = <<>> THEN <<>>
  ELSE IF Len(parts) = 1 THEN parts[1]
  ELSE parts[1] \o sep \o Join(sep, Tail(parts))

\* the spellings of a list of names
Spell(names) == [k \in 1..Len(names) |-> Chars[names[k]]]

\* ------------------------------------------------- the classifier alone
\* most words in the path of a classified URL
MaxPathWords == 2

\* the link base_url/w1-w2-...
PathUrl(path) == Chars[base_url] \o <<"/">> \o Join(<<"-">>, Spell(path))

\* a link on its way into the frontier: its path, and whether its href is
\* in self._header_nav_urls
ClassifierInit ==
  /\ RunParked
  /\ fn = "none"
  /\ args \in [path : ListsOver(PathWords, MaxPathWords), header : BOOLEAN]
  /\ ret = <<>>

\* one iteration of the admission loop of _discover_site_structure: the
\* link is classified and, unless rejected, admitted with the header
\* override applied
Categorize ==
  /\ fn = "none"
  /\ fn' = "_categorize_page"
  /\ ret' = LET page_info == CategorizeSpelled(args.path, PathUrl(args.path))
            IN [page_info |-> page_info,
                admitted |-> IF page_info = None THEN <<>>
                             ELSE <<HeaderOverride(page_info[1], args.header)>>]
  /\ UNCHANGED <<args, run_vars>>

ClassifierNext == Categorize

ClassifierSpec == ClassifierInit /\ [][ClassifierNext]_vars

\* C11: for every URL, _categorize_page either rejects it or returns a
\* candidate whose priority is in 1..5, and the priority of every candidate
\* admitted to discovered_pages is still in 1..5 after the header override.
C11_TierInRange ==
  fn = "_categorize_page" =>
    /\ ret.page_info = None \/ ret.page_info[1].priority \in 1..5
    /\ \A k \in 1..Len(ret.admitted) : ret.admitted[k].priority \in 1..5

\* C11 witness: a header link to a job page, classified into tier 5 and
\* admitted in tier 1
C11_Witness ==
  /\ fn = "_categorize_page"
  /\ args.header
  /\ ret.page_info # None
  /\ ret.page_info[1].priority = 5
  /\ ret.admitted[1].priority = 1

\* C12: classification follows the first-match order schedule, pricing,
\* programs (with events), staff, about, policies, reject (contact), jobs,
\* general: a URL matching the keywords of several rules gets the result of
\* the first of them in this order; so a URL with a pricing keyword and a
\* program keyword but no schedule keyword is tier 2, category pricing.
C12_FirstMatchOrder ==
  fn = "_categorize_page" =>
    LET url_lower == Lower(PathUrl(args.path))
        expected ==
          IF AnyWordIn(DeepScheduleWords \o ScheduleWords, url_lower) THEN <<"schedule", 1>>
          ELSE IF AnyWordIn(PricingWords, url_lower) THEN <<"pricing", 2>>
          ELSE IF AnyWordIn(ProgramWords \o EventWords, url_lower) THEN <<"programs", 2>>
          ELSE IF AnyWordIn(StaffWords, url_lower) THEN <<"staff", 3>>
          ELSE IF AnyWordIn(AboutWords, url_lower) THEN <<"about", 4>>
          ELSE IF AnyWordIn(PolicyWords, url_lower) THEN <<"policies", 4>>
          ELSE IF AnyWordIn(ContactWords, url_lower) THEN None
          ELSE IF AnyWordIn(JobWords, url_lower) THEN <<"about", 5>>
          ELSE <<"general", 4>>
    IN IF expected = None THEN ret.page_info = None
       ELSE /\ ret.page_info # None
            /\ ret.page_info[1].page_type = expected[1]
            /\ ret.page_info[1].priority = expected[2]

\* C13: a URL with a contact/location/address/direction keyword and no
\* keyword of the schedule, pricing, programs, staff, about (about, story,
\* mission, history) or policies sets is rejected and not admitted; a URL
\* with no keyword of any set is admitted as tier 4, category general.
C13_ContactRejectedGeneralKept ==
  fn = "_categorize_page" =>
    LET url_lower == Lower(PathUrl(args.path))
        contact == AnyWordIn(ContactWords, url_lower)
        others ==
          AnyWordIn(DeepScheduleWords \o ScheduleWords \o PricingWords
                      \o ProgramWords \o EventWords \o StaffWords
                      \o SubSeq(AboutWords, 1, 4) \o PolicyWords, url_lower)
        any == contact \/ others \/ AnyWordIn(AboutWords \o JobWords, url_lower)
    IN /\ (contact /\ ~others) => (ret.page_info = None /\ ret.admitted = <<>>)
       /\ ~any => /\ ret.page_info # None
                  /\ ret.page_info[1].page_type = "general"
                  /\ ret.page_info[1].priority = 4
                  /\ Len(ret.admitted) = 1

\* ------------------------------------------------------ program names
\* str.endswith
EndsWith(s, w) == Len(w) <= Len(s) /\ SubSeq(s, Len(s) - Len(w) + 1, Len(s)) = w

\* str.lstrip() and str.strip(): blanks are the only whitespace in Alphabet
RECURSIVE LStrip(_)
LStrip(s) == IF s # <<>> /\ s[1] = " " THEN LStrip(Tail(s)) ELSE s

RECURSIVE Strip(_)
Strip(s) ==
  IF s # <<>> /\ s[Len(s)] = " " THEN Strip(SubSeq(s, 1, Len(s) - 1)) ELSE LStrip(s)

\* str.replace(old, new): every occurrence, left to right, not overlapping
RECURSIVE Replace(_, _, _)
Replace(s, old, new) ==
  IF Len(s) < Len(old) THEN s
  ELSE IF StartsWith(s, old) THEN new \o Replace(SubSeq(s, Len(old) + 1, Len(s)), old, new)
  ELSE <<s[1]>> \o Replace(Tail(s), old, new)

prefixes_to_remove ==
    << <<"c","l","a","s","s",":">>,
       <<"p","r","o","g","r","a","m",":">>,
       <<"c","o","u","r","s","e",":">>,
       <<"l","e","s","s","o","n",":">> >>

suffixes_to_remove ==
    << <<"c","l","a","s","s">>,
       <<"p","r","o","g","r","a","m">>,
       <<"c","o","u","r","s","e">>,
       <<"l","e","s","s","o","n">>,
       <<"c","l","a","s","s","e","s">>,
       <<"p","r","o","g","r","a","m","s">> >>

\* the variations dict as the nested loops walk it: <<variant, standard>>
variations ==
    << <<<<"g","y","m","n","a","s","t","i","c">>, <<"g","y","m","n","a","s","t","i","c","s">>>>,
       <<<<"g","y","m">>, <<"g","y","m","n","a","s","t","i","c","s">>>>,
       <<<<"t","u","m","b","l","e">>, <<"t","u","m","b","l","i","n","g">>>>,
       <<<<"b","e","g","i","n">>, <<"b","e","g","i","n","n","e","r">>>>,
       <<<<"s","t","a","r","t","e","r">>, <<"b","e","g","i","n","n","e","r">>>>,
       <<<<"i","n","t","r","o">>, <<"b","e","g","i","n","n","e","r">>>>,
       <<<<"b","a","s","i","c">>, <<"b","e","g","i","n","n","e","r">>>>,
       <<<<"i","n","t","e","r">>, <<"i","n","t","e","r","m","e","d","i","a","t","e">>>>,
       <<<<"m","i","d","d","l","e">>, <<"i","n","t","e","r","m","e","d","i","a","t","e">>>>,
       <<<<"a","d","v">>, <<"a","d","v","a","n","c","e","d">>>>,
       <<<<"e","x","p","e","r","t">>, <<"a","d","v","a","n","c","e","d">>>>,
       <<<<"p","r","e","-","s","c","h","o","o","l">>, <<"p","r","e","s","c","h","o","o","l">>>>,
       <<<<"p","r","e"," ","s","c","h","o","o","l">>, <<"p","r","e","s","c","h","o","o","l">>>>,
       <<<<"t","o","d","d","l","e","r">>, <<"p","r","e","s","c","h","o","o","l">>>> >>

\* for prefix in prefixes_to_remove: if normalized.startswith(prefix): ...
RECURSIVE RemovePrefixes(_, _)
RemovePrefixes(normalized, prefixes) ==
  IF prefixes = <<>> THEN normalized
  ELSE RemovePrefixes(
         IF StartsWith(normalized, prefixes[1])
           THEN Strip(SubSeq(normalized, Len(prefixes[1]) + 1, Len(normalized)))
           ELSE normalized,
         Tail(prefixes))

\* for suffix in suffixes_to_remove: if normalized.endswith(suffix): ...
RECURSIVE RemoveSuffixes(_, _)
RemoveSuffixes(normalized, suffixes) ==
  IF suffixes = <<>> THEN normalized
  ELSE RemoveSuffixes(
         IF EndsWith(normalized, suffixes[1])
           THEN Strip(SubSeq(normalized, 1, Len(normalized) - Len(suffixes[1])))
           ELSE normalized,
         Tail(suffixes))

\* if variant in normalized: normalized = normalized.replace(variant, standard)
RECURSIVE ReplaceVariants(_, _)
ReplaceVariants(normalized, pairs) ==
  IF pairs = <<>> THEN normalized
  ELSE ReplaceVariants(
         IF Contains(normalized, pairs[1][1])
           THEN Replace(normalized, pairs[1][1], pairs[1][2])
           ELSE normalized,
         Tail(pairs))

\* _normalize_program_name
_normalize_program_name(name) ==
  ReplaceVariants(
    RemoveSuffixes(RemovePrefixes(Strip(Lower(name)), prefixes_to_remove),
                   suffixes_to_remove),
    variations)

\* ------------------------------------------------- field merge strategies
\* Field values: a string is its spelling, a missing value or None of a
\* string, list or dict field is <<>> (as falsy as ''), a missing number is
\* 0, an age range is <<lower, upper>> with each bound None or Some(age).

\* _merge_names
_merge_names(name1, name2) ==
  IF name1 = <<>> THEN name2
  ELSE IF name2 = <<>> THEN name1
  ELSE IF Len(name1) >= Len(name2) THEN name1 ELSE name2

\* _merge_descriptions
_merge_descriptions(desc1, desc2) ==
  IF desc1 = <<>> THEN desc2
  ELSE IF desc2 = <<>> THEN desc1
  ELSE IF Lower(desc1) # Lower(desc2) THEN desc1 \o <<"."," ">> \o desc2
  ELSE IF Len(desc1) >= Len(desc2) THEN desc1 ELSE desc2

\* min and max of two integers
Min(a, b) == IF a <= b THEN a ELSE b
Max(a, b) == IF a >= b THEN a ELSE b

\* a bound of an age range, with the default that stands for None
BoundOr(bound, default) == IF bound # None THEN bound[1] ELSE default

\* _merge_age_ranges
_merge_age_ranges(range1, range2) ==
  IF range1 = <<>> THEN range2
  ELSE IF range2 = <<>> THEN range1
  ELSE LET min_age1 == BoundOr(range1[1], 0)
           min_age2 == BoundOr(range2[1], 0)
           max_age1 == BoundOr(range1[2], 999)
           max_age2 == BoundOr(range2[2], 999)
           min_age == Min(min_age1, min_age2)
           max_age == Max(max_age1, max_age2)
       IN <<IF min_age > 0 THEN Some(min_age) ELSE None,
            IF max_age < 999 THEN Some(max_age) ELSE None>>

generic_levels ==
    << <<"a","l","l"," ","l","e","v","e","l","s">>, <<"v","a","r","i","o","u","s">>, <<"m","i","x","e","d">> >>

\* _merge_levels
_merge_levels(level1, level2) ==
  IF level1 = <<>> THEN level2
  ELSE IF level2 = <<>> THEN level1
  ELSE IF Lower(level1) \in Range(generic_levels) /\ Lower(level2) \notin Range(generic_levels)
    THEN level2
  ELSE level1

\* _merge_schedules
_merge_schedules(schedule1, schedule2) ==
  IF schedule1 = <<>> THEN schedule2
  ELSE IF schedule2 = <<>> THEN schedule1
  ELSE IF Lower(schedule1) # Lower(schedule2) THEN schedule1 \o <<";"," ">> \o schedule2
  ELSE schedule1

generic_prices ==
    << <<"c","o","n","t","a","c","t"," ","f","o","r"," ","p","r","i","c","i","n","g">>, <<"v","a","r","i","e","s">>, <<"c","a","l","l"," ","f","o","r"," ","r","a","t","e","s">> >>

\* _merge_prices without the preference for a specific price
_merge_prices_NoPreference(price1, price2) ==
  IF price1 = <<>> THEN price2
  ELSE IF price2 = <<>> THEN price1
  ELSE IF Lower(price1) # Lower(price2) THEN price1 \o <<" ","/"," ">> \o price2
  ELSE price1

\* _merge_prices
_merge_prices(price1, price2) ==
  IF price1 = <<>> THEN price2
  ELSE IF price2 = <<>> THEN price1
  ELSE IF Lower(price1) \in Range(generic_prices) /\ Lower(price2) \notin Range(generic_prices)
    THEN price2
  ELSE IF Lower(price2) \in Range(generic_prices) /\ Lower(price1) \notin Range(generic_prices)
    THEN price1
  ELSE IF Lower(price1) # Lower(price2) THEN price1 \o <<" ","/"," ">> \o price2
  ELSE price1

\* _merge_numbers_max
_merge_numbers_max(num1, num2) ==
  IF num1 = 0 THEN num2
  ELSE IF num2 = 0 THEN num1
  ELSE Max(num1, num2)

\* _merge_categories
_merge_categories(cat1, cat2) ==
  IF cat1 = <<>> THEN cat2
  ELSE IF cat2 = <<>> THEN cat1
  ELSE IF Lower(cat1) = <<"g","e","n","e","r","a","l">> /\ Lower(cat2) # <<"g","e","n","e","r","a","l">> THEN cat2
  ELSE cat1

\* _merge_session_info
_merge_session_info(info1, info2) ==
  IF info1 = <<>> THEN info2
  ELSE IF info2 = <<>> THEN info1
  ELSE IF Len(info2) > Len(info1) THEN info2 ELSE info1

\* any(char.isdigit() for char in s)
HasDigit(s) ==
  \E k \in 1..Len(s) : s[k] \in {"0", "1", "2", "3", "4", "5", "6", "7", "8", "9"}

\* _merge_dates
_merge_dates(date1, date2) ==
  IF date1 = <<>> THEN date2
  ELSE IF date2 = <<>> THEN date1
  ELSE IF HasDigit(date2) /\ ~HasDigit(date1) THEN date2
  ELSE IF HasDigit(date1) /\ ~HasDigit(date2) THEN date1
  ELSE IF Len(date2) > Len(date1) THEN date2 ELSE date1

\* _merge_availability on strings: extract_number finds a number exactly
\* when the string holds a digit, and only that is looked at
_merge_availability(avail1, avail2) ==
  IF avail1 = <<>> THEN avail2
  ELSE IF avail2 = <<>> THEN avail1
  ELSE IF HasDigit(avail2) /\ ~HasDigit(avail1) THEN avail2
  ELSE IF HasDigit(avail1) /\ ~HasDigit(avail2) THEN avail1
  ELSE avail2

\* priority.get(status.lower(), 0)
StatusPriority(status) ==
  LET status_lower == Lower(status) IN
  CASE status_lower = <<"c","l","o","s","e","d">> -> 5
    [] status_lower = <<"f","u","l","l">> -> 4
    [] status_lower = <<"w","a","i","t","l","i","s","t">> -> 3
    [] status_lower = <<"o","p","e","n">> -> 2
    [] status_lower = <<"u","p","c","o","m","i","n","g">> -> 1
    [] OTHER -> 0

\* _merge_status keeping the later status whatever its rank
_merge_status_LaterWins(status1, status2) ==
  IF status1 = <<>> THEN status2
  ELSE IF status2 = <<>> THEN status1
  ELSE status2

\* _merge_status
_merge_status(status1, status2) ==
  IF status1 = <<>> THEN status2
  ELSE IF status2 = <<>> THEN status1
  ELSE IF StatusPriority(status1) >= StatusPriority(status2) THEN status1 ELSE status2

\* -------------------------------------------------- cross-page fusion
\* A program record is a function from its keys to values.  The records of
\* the model carry no instructors, skills or schedule_details, so the
\* strategies of these three keys (_merge_lists, _merge_schedule_details)
\* are not among the strategies below.

\* the keys of merge_strategies
MergeFields ==
  {"name", "description", "age_range", "level", "schedule", "price",
   "duration", "max_participants", "prerequisites", "category",
   "session_name", "start_date", "end_date", "spots_available",
   "total_spots", "status", "registration_deadline", "additional_info"}

\* the keys whose values are numbers
NumberFields == {"duration", "max_participants", "total_spots"}

\* merged.get(field) of a key the record does not have: None
Missing(field) == IF field \in NumberFields THEN 0 ELSE <<>>

\* Python's truth value of a field value
Truthy(field, value) == value # Missing(field)

\* merge_strategies[field](value1, value2)
Strategy(field, value1, value2) ==
  CASE field = "name" -> _merge_names(value1, value2)
    [] field \in {"description", "prerequisites", "additional_info"} ->
         _merge_descriptions(value1, value2)
    [] field = "age_range" -> _merge_age_ranges(value1, value2)
    [] field = "level" -> _merge_levels(value1, value2)
    [] field = "schedule" -> _merge_schedules(value1, value2)
    [] field = "price" -> _merge_prices(value1, value2)
    [] field \in NumberFields -> _merge_numbers_max(value1, value2)
    [] field = "category" -> _merge_categories(value1, value2)
    [] field = "session_name" -> _merge_session_info(value1, value2)
    [] field \in {"start_date", "end_date", "registration_deadline"} ->
         _merge_dates(value1, value2)
    [] field = "spots_available" -> _merge_availability(value1, value2)
    [] field = "status" -> _merge_status(value1, value2)

\* _merge_two_programs: a copy of program1 in which every key of
\* merge_strategies that program2 holds with a truthy value is merged
_merge_two_programs(program1, program2) ==
  LET merged_fields ==
        {field \in MergeFields \cap DOMAIN program2 : Truthy(field, program2[field])}
  IN [field \in DOMAIN program1 \cup merged_fields |->
        IF field \in merged_fields
          THEN Strategy(field, Get(program1, field, Missing(field)), program2[field])
          ELSE program1[field]]

\* for program in programs[1:]: merged = self._merge_two_programs(merged, program)
RECURSIVE FoldPrograms(_, _)
FoldPrograms(merged, programs) ==
  IF programs = <<>> THEN merged
  ELSE FoldPrograms(_merge_two_programs(merged, programs[1]), Tail(programs))

\* record with a key set
With(record, key, value) ==
  [k \in DOMAIN record \cup {key} |-> IF k = key THEN value ELSE record[k]]

\* _merge_program_group starting the fold from an empty record
_merge_program_group_FromEmpty(programs) ==
  IF programs = <<>> THEN None
  ELSE LET merged == FoldPrograms(EmptyDict, programs)
       IN With(With(merged, "_sources", Len(programs)),
               "_source_pages",
               {Get(programs[k], "_source_page", "unknown") : k \in 1..Len(programs)})

\* _merge_program_group; _source_pages, a list in no particular order of
\* the distinct source pages, is their set
_merge_program_group(programs) ==
  IF programs = <<>> THEN None
  ELSE LET merged == FoldPrograms(programs[1], Tail(programs))
       IN With(With(merged, "_sources", Len(programs)),
               "_source_pages",
               {Get(programs[k], "_source_page", "unknown") : k \in 1..Len(programs)})

\* program.get('name', '').strip()
StrippedName(program) == Strip(Get(program, "name", <<>>))

\* the grouping key of a named program
GroupKey(program) == _normalize_program_name(StrippedName(program))

\* program_groups: the groups in the order their keys were first seen,
\* each with its programs in list order; programs without a name are left out
program_groups(programs) ==
  LET named == SelectSeq(programs, LAMBDA p : StrippedName(p) # <<>>)
      keys == DedupKeepFirst([k \in 1..Len(named) |-> GroupKey(named[k])])
  IN [g \in 1..Len(keys) |-> SelectSeq(named, LAMBDA p : GroupKey(p) = keys[g])]

\* _merge_cross_page_programs
_merge_cross_page_programs(programs) ==
  LET groups == program_groups(programs)
  IN [g \in 1..Len(groups) |-> _merge_program_group(groups[g])]

\* ------------------------------------------------------ instructor cleanup
\* instructor.get('name', '').lower().strip()
InstructorKey(instructor) == Strip(Lower(Get(instructor, "name", <<>>)))

\* the loop of _deduplicate_instructors from a given seen_names
RECURSIVE DedupInstructors(_, _)
DedupInstructors(instructors, seen_names) ==
  IF instructors = <<>> THEN <<>>
  ELSE LET name == InstructorKey(instructors[1])
       IN IF name # <<>> /\ name \notin seen_names
            THEN <<instructors[1]>> \o DedupInstructors(Tail(instructors), seen_names \cup {name})
            ELSE DedupInstructors(Tail(instructors), seen_names)

\* the cleanup without the test against seen_names
_deduplicate_instructors_NoSeenNames(instructors) ==
  SelectSeq(instructors, LAMBDA instructor : InstructorKey(instructor) # <<>>)

\* _deduplicate_instructors
_deduplicate_instructors(instructors) == DedupInstructors(instructors, {})

\* ------------------------------------------------------ business profile
\* dict.update
Update(d, e) == [k \in DOMAIN d \cup DOMAIN e |-> IF k \in DOMAIN e THEN e[k] ELSE d[k]]

\* the loop over self.extracted_content as far as business_info goes: a
\* fragment with a non-empty business_info updates the merged dict
RECURSIVE MergedBusinessInfo(_, _)
MergedBusinessInfo(contents, business_info) ==
  IF contents = <<>> THEN business_info
  ELSE MergedBusinessInfo(Tail(contents),
         IF contents[1].business_info # EmptyDict
           THEN Update(business_info, contents[1].business_info)
           ELSE business_info)

\* the second argument of each business_info.get in the constructor call
BusinessDefault(business_name) ==
  [name |-> business_name,
   description |-> Chars["Quality gymnastics programs at "] \o business_name,
   address |-> Chars["Address not available"],
   city |-> Chars["City not available"],
   state |-> Chars["State not available"],
   zip_code |-> Chars["00000"],
   phone |-> Chars["Phone not available"],
   email |-> Chars["Email not available"]]

\* the business fields of the ComprehensiveBusinessData that
\* _synthesize_all_data builds
BusinessProfile(business_info, business_name, website) ==
  [name |-> Get(business_info, "name", BusinessDefault(business_name).name),
   description |-> Get(business_info, "description", BusinessDefault(business_name).description),
   category |-> Chars["SPORTS"],
   subcategory |-> Chars["GYMNASTICS"],
   address |-> Get(business_info, "address", BusinessDefault(business_name).address),
   city |-> Get(business_info, "city", BusinessDefault(business_name).city),
   state |-> Get(business_info, "state", BusinessDefault(business_name).state),
   zip_code |-> Get(business_info, "zip_code", BusinessDefault(business_name).zip_code),
   phone |-> Get(business_info, "phone", BusinessDefault(business_name).phone),
   email |-> Get(business_info, "email", BusinessDefault(business_name).email),
   website |-> Chars[website]]

\* -------------------------------------------- name normalization alone
\* most words in a program name
MaxNameWords == 2

\* the program name made of the words, blanks between
ProgramName(words) == Join(<<" ">>, Spell(words))

\* the name with each synonym of the variations dict replaced by the
\* canonical word it stands for
Canonical(words) ==
  [k \in 1..Len(words) |->
     CASE words[k] = "Gym" -> "Gymnastics"
       [] words[k] = "Intro" -> "Beginner"
       [] words[k] = "Toddler" -> "Preschool"
       [] OTHER -> words[k]]

NormalizeInit ==
  /\ RunParked
  /\ fn = "none"
  /\ args \in ListsOver(NameWords, MaxNameWords)
  /\ ret = <<>>

\* the grouping key of a name, and the key of that key
NormalizeTwice ==
  /\ fn = "none"
  /\ fn' = "_normalize_program_name"
  /\ ret' = LET key == _normalize_program_name(ProgramName(args))
            IN [key |-> key, again |-> _normalize_program_name(key)]
  /\ UNCHANGED <<args, run_vars>>

\* two pages report a program, one under the name, one under the name
\* spelled with canonical words, and the two records are deduplicated
GroupWithCanonical ==
  /\ fn = "none"
  /\ fn' = "_merge_cross_page_programs"
  /\ ret' = _merge_cross_page_programs(
              <<[name |-> ProgramName(args), _source_page |-> "http://g.co/programs"],
                [name |-> ProgramName(Canonical(args)), _source_page |-> "http://g.co/classes"]>>)
  /\ UNCHANGED <<args, run_vars>>

NormalizeNext ==
  \/ NormalizeTwice
  \/ GroupWithCanonical

NormalizeSpec == NormalizeInit /\ [][NormalizeNext]_vars

\* C14: name normalization is idempotent: normalizing the normalized name
\* of any program name gives the normalized name again.
C14_NormalizeIdempotent ==
  fn = "_normalize_program_name" => ret.again = ret.key

\* C15: two program names that differ only in a synonym against its
\* canonical word (Gym/Gymnastics, Intro/Beginner, Toddler/Preschool) have
\* the same grouping key, and their records are fused into one program.
C15_SynonymsGrouped ==
  (fn = "_merge_cross_page_programs" /\ Canonical(args) # args) =>
    /\ _normalize_program_name(ProgramName(args))
         = _normalize_program_name(ProgramName(Canonical(args)))
    /\ Len(ret) = 1
    /\ ret[1]._sources = 2

\* ------------------------------------------------ field merges alone
\* most records in a group whose statuses are folded
MaxStatuses == 2

\* the age ranges pages report: each bound None or an age; <<>> is no range
AgeRanges ==
  {<<>>} \cup
  {<<lower, upper>> : lower, upper \in {None} \cup {Some(age) : age \in {0, 5, 8, 10}}}

\* the registration statuses pages report; "" is no status
Statuses ==
  {"", "open", "Open", "full", "FULL", "Closed", "waitlist", "upcoming", "pending"}

\* the prices pages report; "" is no price
Prices ==
  {"", "Contact for pricing", "varies", "CALL FOR RATES", "$80/month", "$80/MONTH",
   "$75/mo"}

FieldMergeInit ==
  /\ RunParked
  /\ fn = "none"
  /\ \/ args \in [field : {"age_range"}, values : AgeRanges \X AgeRanges]
     \/ args \in [field : {"status"},
                  values : {s \in ListsOver(Statuses, MaxStatuses) : s # <<>>}]
     \/ args \in [field : {"price"}, values : Prices \X Prices]
  /\ ret = <<>>

\* merge_strategies['age_range'] applied to two ranges
MergeAgeRanges ==
  /\ fn = "none"
  /\ args.field = "age_range"
  /\ fn' = "_merge_age_ranges"
  /\ ret' = _merge_age_ranges(args.values[1], args.values[2])
  /\ UNCHANGED <<args, run_vars>>

\* the records of one program that carry the statuses, one record a page
StatusRecords(statuses) ==
  [k \in 1..Len(statuses) |->
     [name |-> Chars["Tumbling"], status |-> Chars[statuses[k]],
      _source_page |-> "http://g.co/programs"]]

\* merge_strategies['status'] applied to the first two statuses, and the
\* status of the group after _merge_program_group folded its records
MergeStatus ==
  /\ fn = "none"
  /\ args.field = "status"
  /\ fn' = "_merge_status"
  /\ ret' = [pair |-> IF Len(args.values) >= 2
                        THEN _merge_status(Chars[args.values[1]], Chars[args.values[2]])
                        ELSE Chars[args.values[1]],
             group |-> _merge_program_group(StatusRecords(args.values)).status]
  /\ UNCHANGED <<args, run_vars>>

\* merge_strategies['price'] applied to two prices
MergePrices ==
  /\ fn = "none"
  /\ args.field = "price"
  /\ fn' = "_merge_prices"
  /\ ret' = _merge_prices(Chars[args.values[1]], Chars[args.values[2]])
  /\ UNCHANGED <<args, run_vars>>

FieldMergeNext ==
  \/ MergeAgeRanges
  \/ MergeStatus
  \/ MergePrices

FieldMergeSpec == FieldMergeInit /\ [][FieldMergeNext]_vars

\* C18: merging the age ranges [5,8] and [None,10] yields [5,10].
C18_AgeRangeKeepsKnownLower ==
  (fn = "_merge_age_ranges"
     /\ args.values = << <<Some(5), Some(8)>>, <<None, Some(10)>> >>) =>
    ret = <<Some(5), Some(10)>>

\* C20: merging two non-empty statuses returns the one of higher severity
\* rank (closed 5, full 4, waitlist 3, open 2, upcoming 1, others 0), letter
\* case ignored, in either argument order; "open" with "full" gives "full";
\* folding a group gives a status of the highest rank seen in the group.
C20_StatusBySeverity ==
  fn = "_merge_status" =>
    LET Rank(name) ==
          CASE Lower(Chars[name]) = Chars["closed"] -> 5
            [] Lower(Chars[name]) = Chars["full"] -> 4
            [] Lower(Chars[name]) = Chars["waitlist"] -> 3
            [] Lower(Chars[name]) = Chars["open"] -> 2
            [] Lower(Chars[name]) = Chars["upcoming"] -> 1
            [] OTHER -> 0
        seen == {args.values[k] : k \in 1..Len(args.values)} \ {""}
        Highest(names) == {s \in names : \A t \in names : Rank(s) >= Rank(t)}
    IN /\ (Len(args.values) >= 2 /\ args.values[1] # "" /\ args.values[2] # "") =>
            ret.pair \in {Chars[s] : s \in Highest({args.values[1], args.values[2]})}
       /\ (args.values \in {<<"open", "full">>, <<"full", "open">>}) =>
            ret.pair = Chars["full"]
       /\ seen # {} => ret.group \in {Chars[s] : s \in Highest(seen)}

\* C20 witness: "Open" met "FULL" and then "Closed", in the order that makes
\* the later status win each time
C20_Witness ==
  /\ fn = "_merge_status"
  /\ Len(args.values) >= 2
  /\ args.values[1] = "Open"
  /\ args.values[2] = "FULL"
  /\ ret.pair = Chars["FULL"]
  /\ ret.group \in {Chars["FULL"], Chars["Closed"]}

\* a price that is one of the generic phrases, letter case ignored
IsGenericPrice(price) == Lower(Chars[price]) \in Range(generic_prices)

\* C21 as stated: a generic price phrase (any letter case) merged with a
\* specific price gives the specific price in either argument order, so
\* "Contact for pricing" with "$80/month" gives "$80/month"; two specific
\* prices that differ are joined with " / ".
C21_SpecificPriceWins ==
  (fn = "_merge_prices" /\ args.values[1] # "" /\ args.values[2] # "") =>
    LET price1 == args.values[1]
        price2 == args.values[2]
    IN /\ (IsGenericPrice(price1) /\ ~IsGenericPrice(price2)) => ret = Chars[price2]
       /\ (IsGenericPrice(price2) /\ ~IsGenericPrice(price1)) => ret = Chars[price1]
       /\ (~IsGenericPrice(price1) /\ ~IsGenericPrice(price2) /\ price1 # price2) =>
            ret = Chars[price1] \o <<" ","/"," ">> \o Chars[price2]

\* C21 amended: a generic price phrase (any letter case) merged with a
\* specific price gives the specific price in either argument order; two
\* specific prices are joined with " / " when they differ by more than
\* letter case, and the first is kept when they differ in letter case only.
C21_SpecificPriceWinsCaseBlind ==
  (fn = "_merge_prices" /\ args.values[1] # "" /\ args.values[2] # "") =>
    LET price1 == args.values[1]
        price2 == args.values[2]
    IN /\ (IsGenericPrice(price1) /\ ~IsGenericPrice(price2)) => ret = Chars[price2]
       /\ (IsGenericPrice(price2) /\ ~IsGenericPrice(price1)) => ret = Chars[price1]
       /\ (~IsGenericPrice(price1) /\ ~IsGenericPrice(price2)) =>
            IF Lower(Chars[price1]) # Lower(Chars[price2])
              THEN ret = Chars[price1] \o <<" ","/"," ">> \o Chars[price2]
              ELSE ret = Chars[price1]

\* C21 witness: "Contact for pricing" met "$80/month" and the specific
\* price came out
C21_Witness ==
  /\ fn = "_merge_prices"
  /\ args.values = <<"Contact for pricing", "$80/month">>
  /\ ret = Chars["$80/month"]

\* ------------------------------------------- extraction and fusion alone
\* most pages whose fragments are fused
MaxPages == 3

\* a page as the classifier admits it, with the JSON the oracle answered
PageAnswer(url, parsed_data) ==
  [page_info |-> _categorize_page(url)[1], parsed_data |-> parsed_data]

\* the pages of a site that report on its programs: two program pages, two
\* schedule pages and two pricing pages
PageAnswers ==
  {PageAnswer("http://g.co/programs",
     [programs |-> <<[name |-> Chars["Beginner Tumbling"], description |-> Chars["Fun"],
                      age_range |-> <<Some(4), Some(6)>>]>>]),
   PageAnswer("http://g.co/schedule",
     [schedules |-> <<[program |-> Chars["Beginner Tumbling"], day |-> Chars["Monday"],
                       time |-> Chars["4:30 PM"], spots_available |-> Chars["3 left"],
                       status |-> Chars["Open"]]>>]),
   PageAnswer("http://g.co/pricing",
     [pricing |-> <<[program |-> Chars["Beginner Tumbling"], price |-> Chars["$75/mo"]]>>]),
   PageAnswer("http://g.co/calendar",
     [schedules |-> <<[program |-> Chars["Beginner Tumbling"], day |-> Chars["Monday"],
                       time |-> Chars["4:30 PM"], instructor |-> Chars["Ann"],
                       duration |-> 45]>>]),
   PageAnswer("http://g.co/tuition",
     [pricing |-> <<[program |-> Chars["Beginner Tumbling"], price |-> Chars["$75/mo"],
                     billing_frequency |-> Chars["monthly"]]>>]),
   PageAnswer("http://g.co/classes",
     [programs |-> <<[name |-> Chars["Tumbling"], description |-> Chars["Fun"],
                      status |-> Chars["Full"]]>>])}

\* all_programs.extend(content.programs) over the fragments
RECURSIVE AllPrograms(_)
AllPrograms(contents) ==
  IF contents = <<>> THEN <<>>
  ELSE contents[1].programs \o AllPrograms(Tail(contents))

FusionInit ==
  /\ RunParked
  /\ fn = "none"
  /\ args \in ListsOver(PageAnswers, MaxPages)
  /\ ret = <<>>

\* the oracle answered on every page: the fragments are populated and
\* _synthesize_all_data collects their program records
CollectPrograms ==
  /\ fn = "none"
  /\ fn' = "_extract_page_content"
  /\ ret' = [all_programs |->
               AllPrograms([k \in 1..Len(args) |->
                              PopulateContent(args[k].page_info, args[k].parsed_data)])]
  /\ UNCHANGED <<args, run_vars>>

\* _deduplicate_programs; the merge works on copies (lines 1024, 1039), so
\* the collected records are as they were
DeduplicatePrograms ==
  /\ fn = "_extract_page_content"
  /\ fn' = "_deduplicate_programs"
  /\ ret' = [all_programs |-> ret.all_programs,
             programs |-> _merge_cross_page_programs(ret.all_programs)]
  /\ UNCHANGED <<args, run_vars>>

FusionNext ==
  \/ CollectPrograms
  \/ DeduplicatePrograms

FusionSpec == FusionInit /\ [][FusionNext]_vars

\* the three pages about Beginner Tumbling: programs, schedule, pricing
BeginnerTumblingPages ==
  {a \in PageAnswers :
     a.page_info.url \in {"http://g.co/programs", "http://g.co/schedule", "http://g.co/pricing"}}

\* C16: fusing the three records found for "Beginner Tumbling" (programs
\* page with description and age range [4,6]; schedule entry Monday 4:30 PM
\* with spots_available "3 left" and status "Open"; pricing entry "$75/mo")
\* yields exactly one program with age_range [4,6], a schedule containing
\* "Monday 4:30 PM", spots available 3, status "Open", price "$75/mo" and
\* three source pages.
C16_BeginnerTumblingFused ==
  (fn = "_deduplicate_programs" /\ Len(args) = 3
     /\ {args[k] : k \in 1..3} = BeginnerTumblingPages) =>
    /\ Len(ret.programs) = 1
    /\ LET program == ret.programs[1]
       IN /\ Get(program, "age_range", <<>>) = <<Some(4), Some(6)>>
          /\ Contains(Get(program, "schedule", <<>>), Chars["Monday 4:30 PM"])
          /\ Contains(Get(program, "spots_available", <<>>), Chars["3"])
          /\ Get(program, "status", <<>>) = Chars["Open"]
          /\ Get(program, "price", <<>>) = Chars["$75/mo"]
          /\ Cardinality(program._source_pages) = 3

\* the records of all_programs fused into a merged program, in list order
GroupOf(program, all_programs) ==
  SelectSeq(all_programs, LAMBDA p : GroupKey(p) = GroupKey(program))

\* C17: a field without a merge rule (instructor, billing_frequency) holds
\* in the merged record the first non-empty value it has in the group, in
\* fold order; so a value only a later record has is in the merged record.
C17_UnruledFieldsFirstNonEmpty ==
  fn = "_deduplicate_programs" =>
    \A g \in 1..Len(ret.programs) :
      \A field \in {"instructor", "billing_frequency"} :
        LET group == GroupOf(ret.programs[g], ret.all_programs)
            values == SelectSeq([k \in 1..Len(group) |-> Get(group[k], field, <<>>)],
                                LAMBDA v : v # <<>>)
        IN values # <<>> => Get(ret.programs[g], field, <<>>) = values[1]

\* C19: a record alone in its group is fused into a record that equals it
\* on each of its fields and has just the provenance fields added, _sources
\* = 1 and _source_pages = its source page; the input records are as before.
C19_SingletonUnchanged ==
  [][ (fn = "_extract_page_content" /\ fn' = "_deduplicate_programs") =>
        /\ ret'.all_programs = ret.all_programs
        /\ \A k \in 1..Len(ret.all_programs) :
             LET record == ret.all_programs[k]
             IN Len(GroupOf(record, ret.all_programs)) = 1 =>
                  \E g \in 1..Len(ret'.programs) :
                    LET merged == ret'.programs[g]
                    IN /\ DOMAIN merged = DOMAIN record \cup {"_sources", "_source_pages"}
                       /\ \A field \in DOMAIN record : merged[field] = record[field]
                       /\ merged._sources = 1
                       /\ merged._source_pages = {record._source_page} ]_vars

\* C19 witness: a program reported by one page only was fused next to a
\* program reported by two pages
C19_Witness ==
  /\ fn = "_deduplicate_programs"
  /\ Len(ret.programs) = 2
  /\ ret.programs[1]._sources = 2
  /\ ret.programs[2]._sources = 1
  /\ ret.programs[2].name = Chars["Tumbling"]
  /\ ret.programs[2].status = Chars["Full"]

\* ------------------------------------------- instructor cleanup alone
\* most instructor entries in one cleanup
MaxInstructors == 3

\* instructor entries as staff pages report them: three spellings of one
\* name with different titles, another name, an empty name, no name
Instructors ==
  {[name |-> Chars["Ann"], title |-> Chars["Coach"]],
   [name |-> Chars["ann "], title |-> Chars["Head"]],
   [name |-> Chars[" ANN"]],
   [name |-> Chars["Bob"], title |-> Chars["Coach"]],
   [name |-> Chars[""], title |-> Chars["Head"]],
   [title |-> Chars["Coach"]]}

InstructorInit ==
  /\ RunParked
  /\ fn = "none"
  /\ args \in ListsOver(Instructors, MaxInstructors)
  /\ ret = <<>>

\* all_instructors = self._deduplicate_instructors(all_instructors)
DeduplicateInstructors ==
  /\ fn = "none"
  /\ fn' = "_deduplicate_instructors"
  /\ ret' = _deduplicate_instructors(args)
  /\ UNCHANGED <<args, run_vars>>

InstructorNext ==
  \/ DeduplicateInstructors

InstructorSpec == InstructorInit /\ [][InstructorNext]_vars

\* the first position of an entry with the given lowercased, trimmed name
FirstSeen(instructors, name) ==
  CHOOSE k \in 1..Len(instructors) :
    /\ InstructorKey(instructors[k]) = name
    /\ \A j \in 1..(k - 1) : InstructorKey(instructors[j]) # name

\* C23: instructor entries whose names are equal after lowercasing and
\* trimming surrounding whitespace collapse to one entry in the output of
\* _deduplicate_instructors, the kept entry is the first one seen, and the
\* output keeps first-seen order. (The names meant are non-empty ones: an
\* entry without a name has no identity and is not part of the output.)
C23_InstructorsCollapse ==
  fn = "_deduplicate_instructors" =>
    /\ \A k \in 1..Len(args) :
         LET name == InstructorKey(args[k])
         IN name # <<>> =>
              /\ Cardinality({j \in 1..Len(ret) : InstructorKey(ret[j]) = name}) = 1
              /\ \E j \in 1..Len(ret) : ret[j] = args[FirstSeen(args, name)]
    /\ \A j \in 1..Len(ret) :
         /\ InstructorKey(ret[j]) # <<>>
         /\ \E k \in 1..Len(args) : InstructorKey(args[k]) = InstructorKey(ret[j])
    /\ \A j1, j2 \in 1..Len(ret) :
         j1 < j2 => FirstSeen(args, InstructorKey(ret[j1])) < FirstSeen(args, InstructorKey(ret[j2]))

\* C23 witness: "ann " with title Head came before Bob and "Ann" with title
\* Coach; the first spelling and Bob are kept, in that order
C23_Witness ==
  /\ fn = "_deduplicate_instructors"
  /\ args = <<[name |-> Chars["ann "], title |-> Chars["Head"]],
              [name |-> Chars["Bob"], title |-> Chars["Coach"]],
              [name |-> Chars["Ann"], title |-> Chars["Coach"]]>>
  /\ ret = <<[name |-> Chars["ann "], title |-> Chars["Head"]],
             [name |-> Chars["Bob"], title |-> Chars["Coach"]]>>

\* ------------------------------------------- profile assembly alone
\* most fragments with business information in one synthesis
MaxFragments == 3

\* the business_name argument of the run
business_name == Chars["G Gym"]

\* the business_info of the fragments of about pages: nothing, name and
\* phone, an empty phone, another phone with a city, an email
BusinessInfos ==
  {EmptyDict,
   [name |-> Chars["Gym"], phone |-> Chars["555"]],
   [phone |-> Chars[""]],
   [phone |-> Chars["556"], city |-> Chars["Ames"]],
   [email |-> Chars["a@g.co"]]}

\* the fragment of an about page with the given business_info
AboutContent(business_info) ==
  [ExtractedContent("http://g.co/about", "about") EXCEPT !.business_info = business_info]

ProfileInit ==
  /\ RunParked
  /\ fn = "none"
  /\ args \in ListsOver(BusinessInfos, MaxFragments)
  /\ ret = <<>>

\* the loop of _synthesize_all_data over the fragments, in visit order
CombineBusinessInfo ==
  /\ fn = "none"
  /\ fn' = "update"
  /\ ret' = [business_info |->
               MergedBusinessInfo([k \in 1..Len(args) |-> AboutContent(args[k])], EmptyDict)]
  /\ UNCHANGED <<args, run_vars>>

\* the ComprehensiveBusinessData built from the merged business_info
BuildProfile ==
  /\ fn = "update"
  /\ fn' = "_synthesize_all_data"
  /\ ret' = [business_info |-> ret.business_info,
             profile |-> BusinessProfile(ret.business_info, business_name, base_url)]
  /\ UNCHANGED <<args, run_vars>>

ProfileNext ==
  \/ CombineBusinessInfo
  \/ BuildProfile

ProfileSpec == ProfileInit /\ [][ProfileNext]_vars

\* C24: in the assembled profile every business field (name, description,
\* address, city, state, zip code, phone, email) whose merged business_info
\* value is missing or empty holds its fallback default, and a field set by
\* several fragments holds the value from the last fragment in visit order
\* that set it.
C24_DefaultsAndLastWrite ==
  fn = "_synthesize_all_data" =>
    \A field \in DOMAIN BusinessDefault(business_name) :
      LET setters == {k \in 1..Len(args) : field \in DOMAIN args[k]}
          merged == Get(ret.business_info, field, <<>>)
      IN /\ merged = <<>> => ret.profile[field] = BusinessDefault(business_name)[field]
         /\ merged # <<>> =>
              \E k \in setters :
                /\ \A j \in setters : j <= k
                /\ ret.profile[field] = args[k][field]

\* ------------------------------------------- the internal-link filter alone
\* most anchors on the main page
MaxAnchors == 3

\* anchors of a main page's header: two pages of the site, a page of
\* another site, one whose query string names the site, a phone link and a
\* mail link
FilterAnchors ==
  {Anchor("http://g.co/about", "About", "", "header"),
   Anchor("http://g.co/classes", "Classes", "", "header"),
   Anchor("http://x.io/classes", "Partner", "", "header"),
   Anchor("http://x.io/classes?r=g.co", "Partner", "", "header"),
   Anchor("tel:555", "Contact", "", "header"),
   Anchor("mailto:a@g.co", "Contact", "", "header")}

LinkFilterInit ==
  /\ RunParked
  /\ fn = "none"
  /\ args \in ListsOver(FilterAnchors, MaxAnchors)
  /\ ret = <<>>

\* _discover_important_links up to the sorted internal_links
FilterInternalLinks ==
  /\ fn = "none"
  /\ fn' = "internal_links"
  /\ ret' = [internal_links |-> SortLinks(InternalLinks(args))]
  /\ UNCHANGED <<args, run_vars>>

\* the discovery oracle fails, the heuristic picks the important links and
\* _discover_site_structure classifies each of them
ClassifyImportantLinks ==
  /\ fn = "internal_links"
  /\ fn' = "_categorize_page"
  /\ ret' = [internal_links |-> ret.internal_links,
             discovered_pages |->
               DiscoveredPages(_heuristic_link_filtering(ret.internal_links), {},
                               HeaderNavUrls(ret.internal_links))]
  /\ UNCHANGED <<args, run_vars>>

LinkFilterNext ==
  \/ FilterInternalLinks
  \/ ClassifyImportantLinks

LinkFilterSpec == LinkFilterInit /\ [][LinkFilterNext]_vars

\* the part of s before the first of "/", "?" and "#"
RECURSIVE UpToPath(_)
UpToPath(s) ==
  IF s = <<>> \/ s[1] \in {"/", "?", "#"} THEN <<>> ELSE <<s[1]>> \o UpToPath(Tail(s))

\* the host of a URL: what stands between "://" and the path, "" without "://"
RECURSIVE Netloc(_)
Netloc(s) ==
  IF Len(s) < 3 THEN <<>>
  ELSE IF StartsWith(s, <<":", "/", "/">>) THEN UpToPath(SubSeq(s, 4, Len(s)))
  ELSE Netloc(Tail(s))

\* C25: the internal-link filter of link discovery keeps a link only if it
\* is not a tel: or mailto: link and its host is the base URL's domain; a
\* link to another domain is never passed on to classification, including
\* one whose path or query string contains the base domain as text.
C25_OnlyOwnHostLinks ==
  /\ fn \in {"internal_links", "_categorize_page"} =>
       \A k \in 1..Len(ret.internal_links) :
         LET href == Chars[ret.internal_links[k].href]
         IN /\ ~StartsWith(href, <<"t","e","l",":">>)
            /\ ~StartsWith(href, <<"m","a","i","l","t","o",":">>)
            /\ Netloc(href) = Chars[domain]
  /\ fn = "_categorize_page" =>
       \A k \in 1..Len(ret.discovered_pages) :
         Netloc(Chars[ret.discovered_pages[k].url]) = Chars[domain]

\* ------------------------------------------- the frontier alone
\* most links that link discovery hands to the classifier
MaxFrontier == 3

\* pages of the site: two of tier 4, two of tier 2, one of tier 3 and one
\* of tier 1
FrontierUrls ==
  {"http://g.co/about", "http://g.co/blog", "http://g.co/classes",
   "http://g.co/programs", "http://g.co/Staff", "http://g.co/schedule"}

\* the pages that may be linked from the header or a menu
FrontierNavUrls == {"http://g.co/about", "http://g.co/classes", "http://g.co/programs"}

FrontierInit ==
  /\ RunParked
  /\ fn = "none"
  /\ args \in [links : ListsOver(FrontierUrls, MaxFrontier),
                nav_urls : SUBSET FrontierNavUrls,
                max_pages : {2, 15}]
  /\ ret = <<>>

\* _discover_site_structure from the links of _discover_important_links on
\* a fresh extractor
BuildDiscoveredPages ==
  /\ fn = "none"
  /\ fn' = "_discover_site_structure"
  /\ ret' = [discovered_pages |-> DiscoveredPages(args.links, {}, args.nav_urls)]
  /\ UNCHANGED <<args, run_vars>>

\* _browse_and_extract_content up to the loop
BuildPagesToVisit ==
  /\ fn = "_discover_site_structure"
  /\ fn' = "_browse_and_extract_content"
  /\ ret' = [discovered_pages |-> ret.discovered_pages,
             pages_to_visit |-> PagesToVisit(ret.discovered_pages, args.max_pages)]
  /\ UNCHANGED <<args, run_vars>>

FrontierNext ==
  \/ BuildDiscoveredPages
  \/ BuildPagesToVisit

FrontierSpec == FrontierInit /\ [][FrontierNext]_vars

\* the urls of the pages of a list that have the given priority, in order
UrlsOfPriority(pages, priority) ==
  LET chosen == SelectSeq(pages, LAMBDA p : p.priority = priority)
  IN [k \in 1..Len(chosen) |-> chosen[k].url]

\* C26: within the header bucket and within the other bucket, candidates
\* of equal priority keep the relative order in which they were discovered,
\* and the frontier is the header bucket followed by the other bucket, each
\* sorted by ascending priority.
C26_StableBuckets ==
  fn \in {"_discover_site_structure", "_browse_and_extract_content"} =>
    LET pages == ret.discovered_pages
        admitted == AdmittedPages(args.links, {}, args.nav_urls)
        InHeader(p) == p.url \in args.nav_urls
        header_pages == SelectSeq(pages, InHeader)
        other_pages == SelectSeq(pages, LAMBDA p : ~InHeader(p))
    IN /\ pages = header_pages \o other_pages
       /\ \A a, b \in 1..Len(header_pages) :
            a < b => header_pages[a].priority <= header_pages[b].priority
       /\ \A a, b \in 1..Len(other_pages) :
            a < b => other_pages[a].priority <= other_pages[b].priority
       /\ \A priority \in 1..5 :
            /\ UrlsOfPriority(header_pages, priority)
                 = UrlsOfPriority(SelectSeq(admitted, InHeader), priority)
            /\ UrlsOfPriority(other_pages, priority)
                 = UrlsOfPriority(SelectSeq(admitted, LAMBDA p : ~InHeader(p)), priority)
       /\ fn = "_browse_and_extract_content" =>
            \A a, b \in 1..Len(ret.pages_to_visit) :
              a < b => ret.pages_to_visit[a] < ret.pages_to_visit[b]

\* C26 witness: blog was discovered before about, both of tier 4 and
\* neither in the header, with Staff of tier 3 between them; Staff comes
\* first, blog stays before about, and a budget of 2 takes the first two
C26_Witness ==
  /\ fn = "_browse_and_extract_content"
  /\ args.links = <<"http://g.co/blog", "http://g.co/Staff", "http://g.co/about">>
  /\ args.nav_urls = {}
  /\ [k \in 1..Len(ret.discovered_pages) |-> ret.discovered_pages[k].url]
       = <<"http://g.co/Staff", "http://g.co/blog", "http://g.co/about">>
  /\ ret.pages_to_visit = <<1, 2>>

\* ------------------------------------------- the content-reveal loops alone
\* how far a page grows when a scroll makes it load more content
MaxGrowth == 3

\* if scroll_count > 50: break
ScrollLimit == 50

\* while ... and click_count < 8
MaxClicks == 8

\* for i in range(5)
MaxScrollAttempts == 5

\* len(load_more_selectors)
LoadMoreSelectors == 11

\* document.body.scrollHeight and window.innerHeight when a loop starts
PageHeights == {0, 1, 4}
ViewportHeights == {0, 2, 3}

\* what one scroll adds to document.body.scrollHeight
Growth == {0, MaxGrowth}

\* int(viewport_height * 0.7)
ScrollStep(viewport_height) == (viewport_height * 7) \div 10

RevealInit ==
  /\ RunParked
  /\ fn = "none"
  /\ \/ args \in [function : {"_systematic_page_scroll"}, page_height : PageHeights,
                  viewport_height : ViewportHeights]
     \/ args \in [function : {"_handle_dynamic_content_loading"}, page_height : PageHeights]
  /\ ret = <<>>

\* _systematic_page_scroll up to the while loop
ScrollBegin ==
  /\ fn = "none"
  /\ args.function = "_systematic_page_scroll"
  /\ fn' = "_systematic_page_scroll"
  /\ ret' = [pc |-> "while", page_height |-> args.page_height,
             scroll_step |-> ScrollStep(args.viewport_height),
             current_position |-> 0, scroll_count |-> 0, broke |-> FALSE]
  /\ UNCHANGED <<args, run_vars>>

\* the safety check at the end of an iteration with the limit set too high
ScrollLimitReached_Late(scroll_count) == scroll_count > ScrollLimit + 10

\* the safety check at the end of an iteration
ScrollLimitReached(scroll_count) == scroll_count > ScrollLimit

\* one iteration of the while loop: scroll, count, take up a greater page
\* height, advance, break past the limit
ScrollIteration ==
  /\ fn = "_systematic_page_scroll"
  /\ ret.pc = "while" /\ ~ret.broke
  /\ ret.current_position < ret.page_height
  /\ \E growth \in Growth :
       LET new_height == ret.page_height + growth
       IN ret' = [ret EXCEPT
                    !.scroll_count = @ + 1,
                    !.page_height = IF new_height > @ THEN new_height ELSE @,
                    !.current_position = @ + ret.scroll_step,
                    !.broke = ScrollLimitReached(ret.scroll_count + 1)]
  /\ UNCHANGED <<fn, args, run_vars>>

\* the loop is over (condition false or break): final scroll to the bottom
ScrollReturn ==
  /\ fn = "_systematic_page_scroll"
  /\ ret.pc = "while"
  /\ ret.broke \/ ~(ret.current_position < ret.page_height)
  /\ ret' = [ret EXCEPT !.pc = "returned"]
  /\ UNCHANGED <<fn, args, run_vars>>

\* page.evaluate or a wait raises: the error leaves the function
ScrollRaises ==
  /\ fn = "_systematic_page_scroll"
  /\ ret.pc = "while"
  /\ ret' = [ret EXCEPT !.pc = "raised"]
  /\ UNCHANGED <<fn, args, run_vars>>

\* _handle_dynamic_content_loading up to the loop over the selectors
DynamicBegin ==
  /\ fn = "none"
  /\ args.function = "_handle_dynamic_content_loading"
  /\ fn' = "_handle_dynamic_content_loading"
  /\ ret' = [pc |-> "selectors", selector |-> 1, click_count |-> 0, total_clicks |-> 0,
             page_height |-> args.page_height, previous_height |-> 0, attempts |-> 0]
  /\ UNCHANGED <<args, run_vars>>

\* the button of the selector is there and visible: click it
ClickLoadMore ==
  /\ fn = "_handle_dynamic_content_loading"
  /\ ret.pc = "selectors" /\ ret.selector <= LoadMoreSelectors
  /\ ret.click_count < MaxClicks
  /\ ret' = [ret EXCEPT !.click_count = @ + 1, !.total_clicks = @ + 1]
  /\ UNCHANGED <<fn, args, run_vars>>

\* the inner loop ends (no button, button hidden, click_count at its
\* limit) or something raises and is caught: go to the next selector
NextSelector ==
  /\ fn = "_handle_dynamic_content_loading"
  /\ ret.pc = "selectors" /\ ret.selector <= LoadMoreSelectors
  /\ ret' = [ret EXCEPT !.selector = @ + 1, !.click_count = 0]
  /\ UNCHANGED <<fn, args, run_vars>>

\* the selectors are done: previous_height = document.body.scrollHeight
SelectorsDone ==
  /\ fn = "_handle_dynamic_content_loading"
  /\ ret.pc = "selectors" /\ ret.selector > LoadMoreSelectors
  /\ ret' = [ret EXCEPT !.pc = "for", !.previous_height = ret.page_height]
  /\ UNCHANGED <<fn, args, run_vars>>

\* one pass of for i in range(5): scroll to the bottom, compare heights,
\* break when the page did not grow
ScrollToBottom ==
  /\ fn = "_handle_dynamic_content_loading"
  /\ ret.pc = "for" /\ ret.attempts < MaxScrollAttempts
  /\ \E growth \in Growth :
       LET new_height == ret.page_height + growth
       IN ret' = [ret EXCEPT
                    !.attempts = @ + 1,
                    !.page_height = new_height,
                    !.previous_height = IF new_height > @ THEN new_height ELSE @,
                    !.pc = IF new_height > ret.previous_height THEN "for" ELSE "returned"]
  /\ UNCHANGED <<fn, args, run_vars>>

\* range(5) is used up
DynamicReturn ==
  /\ fn = "_handle_dynamic_content_loading"
  /\ ret.pc = "for" /\ ret.attempts >= MaxScrollAttempts
  /\ ret' = [ret EXCEPT !.pc = "returned"]
  /\ UNCHANGED <<fn, args, run_vars>>

\* page.evaluate or a wait outside the try raises: the error leaves the function
DynamicRaises ==
  /\ fn = "_handle_dynamic_content_loading"
  /\ ret.pc = "for"
  /\ ret' = [ret EXCEPT !.pc = "raised"]
  /\ UNCHANGED <<fn, args, run_vars>>

RevealNext ==
  \/ ScrollBegin
  \/ ScrollIteration
  \/ ScrollReturn
  \/ ScrollRaises
  \/ DynamicBegin
  \/ ClickLoadMore
  \/ NextSelector
  \/ SelectorsDone
  \/ ScrollToBottom
  \/ DynamicReturn
  \/ DynamicRaises

RevealSpec == RevealInit /\ [][RevealNext]_vars

\* every await of the two coroutines returns or raises, so a loop that can
\* take a step takes one
FairRevealSpec == RevealSpec /\ WF_vars(RevealNext)

\* the function that was called has returned or raised
RevealOver == fn # "none" /\ ret.pc \in {"returned", "raised"}

\* C30: the content-reveal loops always terminate: _systematic_page_scroll
\* performs at most 51 scroll iterations even when the page height grows on
\* every scroll or the scroll step is 0, and
\* _handle_dynamic_content_loading performs at most 8 clicks per load-more
\* selector and at most 5 scroll-to-bottom attempts, stopping at the first
\* attempt that does not increase the page height.
C30_RevealLoopsTerminate ==
  /\ [](fn = "_systematic_page_scroll" => ret.scroll_count <= 51)
  /\ [](fn = "_handle_dynamic_content_loading" => ret.click_count <= 8 /\ ret.attempts <= 5)
  /\ [][ (/\ fn = "_handle_dynamic_content_loading"
          /\ ret.pc = "for"
          /\ ret'.attempts = ret.attempts + 1
          /\ ret'.page_height <= ret.previous_height) => ret'.pc = "returned" ]_vars
  /\ <>RevealOver

\* C30 witness: a page that grew on every scroll, scrolled with step 0,
\* left the while loop after 51 iterations
C30_Witness ==
  /\ fn = "_systematic_page_scroll"
  /\ ret.pc = "returned"
  /\ ret.scroll_step = 0
  /\ ret.scroll_count = 51
  /\ ret.page_height = args.page_height + 51 * MaxGrowth

====
